---- MODULE Spec2Model ----
(***************************************************************************)
(* A model of the 2D rigid-body physics engine of physics_engine.py:       *)
(* PhysicsBody (force accumulation, integration, collision test and        *)
(* resolution) and PhysicsEngine (body registry, update step, force        *)
(* fields, springs, start/stop).                                           *)
(*                                                                         *)
(* Numbers.  The program computes with Python floats.  A number is         *)
(* modelled as a rational <<n, d>> in lowest terms with d > 0.  Sums,      *)
(* products and quotients are exact as long as the result has a            *)
(* denominator of at most Precision; a result with a larger denominator    *)
(* is rounded to the nearest multiple of 1/Precision (a finite mantissa).  *)
(* math.sqrt is exact on the square of a rational and rounded down to a    *)
(* multiple of 1/Precision (of a coarser unit for a large value)           *)
(* otherwise.                                                              *)
(***************************************************************************)
EXTENDS Integers, Sequences, FiniteSets, TLC

\* Largest denominator a number keeps exactly.
Precision == 1000

IAbs(n) == IF n < 0 THEN -n ELSE n

RECURSIVE GCD(_, _)
GCD(a, b) == IF b = 0 THEN a ELSE GCD(b, a % b)

\* n/g over d/g with a positive denominator (g divides n and d, d # 0).
Reduce(n, d, g) ==
    IF d < 0 THEN <<(-n) \div g, (-d) \div g>> ELSE <<n \div g, d \div g>>

\* n/d in lowest terms with a positive denominator (d # 0).
Norm(n, d) == Reduce(n, d, GCD(IAbs(n), IAbs(d)))

\* Nearest integer to n/k (n >= 0, k > 0).
RoundDiv(n, k) == (2 * n + k) \div (2 * k)

\* The nearest multiple of 1/Precision to whole + rest/d (0 <= rest < d);
\* k keeps the intermediate products small.
RoundTo(whole, rest, d, k) ==
    Norm(whole * Precision + RoundDiv((rest \div k) * Precision, d \div k),
         Precision)

\* The nearest multiple of 1/Precision to q >= 0.
RoundMagnitude(q) ==
    RoundTo(q[1] \div q[2], q[1] % q[2], q[2], q[2] \div 1000000 + 1)

\* -a
Opposite(a) == <<-a[1], a[2]>>

\* The float the program stores for the exact value q in lowest terms: q
\* itself when its denominator is at most Precision, else the nearest
\* multiple of 1/Precision; rounding is symmetric in the sign, as it is for
\* a float.
RoundQ(q) ==
    IF q[2] <= Precision THEN q
    ELSE IF q[1] < 0 THEN Opposite(RoundMagnitude(Opposite(q)))
    ELSE RoundMagnitude(q)

\* The float the program stores for the exact value n/d (d # 0).
Round(n, d) == RoundQ(Norm(n, d))

R(n) == <<n, 1>>
Zero == R(0)
One == R(1)

\* a + b over the common denominator a[2]*b[2]/g (g divides a[2] and b[2]).
RAddOver(a, b, g) ==
    Round(a[1] * (b[2] \div g) + b[1] * (a[2] \div g), (a[2] \div g) * b[2])
RAdd(a, b) == RAddOver(a, b, GCD(a[2], b[2]))
RNeg(a) == <<-a[1], a[2]>>
RSub(a, b) == RAdd(a, RNeg(b))
\* The product of the fractions p and q.
RTimes(p, q) == Round(p[1] * q[1], p[2] * q[2])
\* a * b, reduced crosswise first to keep the products small.
RMul(a, b) == RTimes(Norm(a[1], b[2]), Norm(b[1], a[2]))
\* a / b for b # 0 (a zero divisor raises ZeroDivisionError in the program).
RDiv(a, b) == RMul(a, Norm(b[2], b[1]))
RLt(a, b) == a[1] * b[2] < b[1] * a[2]
RLe(a, b) == a[1] * b[2] <= b[1] * a[2]
RGt(a, b) == RLt(b, a)
RGe(a, b) == RLe(b, a)
RAbs(a) == <<IAbs(a[1]), a[2]>>
RMin(a, b) == IF RLe(a, b) THEN a ELSE b
RMax(a, b) == IF RGe(a, b) THEN a ELSE b
RIsZero(a) == a[1] = 0
RSign(a) == IF a[1] > 0 THEN 1 ELSE IF a[1] < 0 THEN -1 ELSE 0

\* Largest integer whose square is at most m (m >= 0), by Newton's iteration.
RECURSIVE ISqrtIter(_, _)
ISqrtIter(m, x) ==
    IF (x + m \div x) \div 2 >= x THEN x ELSE ISqrtIter(m, (x + m \div x) \div 2)
ISqrt(m) == IF m < 2 THEN m ELSE ISqrtIter(m, m)

\* m is the square of r.
SquareOf(m, r) == r * r = m
IsSquare(a) ==
    /\ a[1] >= 0
    /\ SquareOf(a[1], ISqrt(a[1]))
    /\ SquareOf(a[2], ISqrt(a[2]))

\* The scale math.sqrt keeps for a radicand with integer part whole: fewer
\* decimals for a larger value (a finite mantissa).
SqrtScale(whole) ==
    IF whole < 2000 THEN Precision
    ELSE IF whole < 200000 THEN Precision \div 10
    ELSE IF whole < 20000000 THEN Precision \div 100
    ELSE 1

\* math.sqrt(a) for a >= 0.
\* The square root of whole + rest/d rounded down to a multiple of 1/sc.
SqrtAt(whole, rest, d, sc) ==
    Norm(ISqrt(whole * sc * sc + (rest * sc * sc) \div d), sc)
Sqrt(a) ==
    IF IsSquare(a) THEN <<ISqrt(a[1]), ISqrt(a[2])>>
    ELSE SqrtAt(a[1] \div a[2], a[1] % a[2], a[2], SqrtScale(a[1] \div a[2]))

(***************************************************************************)
(* Vectors: a pair <<x, y>> of numbers (Python index 0 is x, 1 is y).      *)
(***************************************************************************)
V(x, y) == <<R(x), R(y)>>
VZero == V(0, 0)

(***************************************************************************)
(* PhysicsBody                                                             *)
(***************************************************************************)
\* The velocity threshold of the friction step, 0.01.
VelocityEpsilon == <<1, 100>>
\* The friction step's gravitational constant, 9.8.
FrictionG == <<49, 5>>
\* separation_factor of resolve_collision, 0.01.
SeparationFactor == <<1, 100>>

\* PhysicsBody.__init__
PhysicsBody(element_id, mass, position, velocity, restitution, friction) ==
    [element_id |-> element_id, mass |-> mass, position |-> position,
     velocity |-> velocity, acceleration |-> VZero, forces |-> VZero,
     restitution |-> restitution, friction |-> friction, fixed |-> FALSE,
     shape_type |-> "circle", radius |-> R(10), width |-> R(20),
     height |-> R(20), in_collision |-> FALSE]

\* PhysicsBody.apply_force
apply_force(b, force) ==
    IF ~b.fixed
    THEN [b EXCEPT !.forces = <<RAdd(b.forces[1], force[1]),
                                RAdd(b.forces[2], force[2])>>]
    ELSE b

\* PhysicsBody.set_fixed
set_fixed(b, fixed) == [b EXCEPT !.fixed = fixed]

\* math.copysign(x, y) for y # 0.
CopySign(x, y) == IF y[1] < 0 THEN RNeg(RAbs(x)) ELSE RAbs(x)

\* The friction step with >= for >: a component of exactly 0.01 is kept.
apply_friction_from_threshold(b, v, dt) ==
    IF RGe(RAbs(v), VelocityEpsilon)
    THEN RAdd(v, RMul(RDiv(RNeg(CopySign(RMul(RMul(b.friction, b.mass), FrictionG), v)),
                           b.mass), dt))
    ELSE Zero

\* The friction step of PhysicsBody.update on one velocity component.
apply_friction(b, v, dt) ==
    IF RGt(RAbs(v), VelocityEpsilon)
    THEN RAdd(v, RMul(RDiv(RNeg(CopySign(RMul(RMul(b.friction, b.mass), FrictionG), v)),
                           b.mass), dt))
    ELSE Zero

\* velocity += acceleration * dt, then the friction step, on both axes.
integrate_velocity(b, acceleration, dt) ==
    <<apply_friction(b, RAdd(b.velocity[1], RMul(acceleration[1], dt)), dt),
      apply_friction(b, RAdd(b.velocity[2], RMul(acceleration[2], dt)), dt)>>

\* position += velocity * dt on both axes.
integrate_position(position, velocity, dt) ==
    <<RAdd(position[1], RMul(velocity[1], dt)),
      RAdd(position[2], RMul(velocity[2], dt))>>

\* advance as explicit Euler: the position advances by the old velocity.
advance_explicit(b, acceleration, velocity, dt) ==
    [b EXCEPT !.acceleration = acceleration, !.velocity = velocity,
              !.position = integrate_position(b.position, b.velocity, dt),
              !.forces = VZero]

\* The body with its new acceleration and velocity, its position advanced by
\* the new velocity and its forces reset.
advance(b, acceleration, velocity, dt) ==
    [b EXCEPT !.acceleration = acceleration, !.velocity = velocity,
              !.position = integrate_position(b.position, velocity, dt),
              !.forces = VZero]

\* The body integrated under the acceleration it has for this step.
accelerate(b, acceleration, dt) ==
    advance(b, acceleration, integrate_velocity(b, acceleration, dt), dt)

\* PhysicsBody.update
body_update(b, dt) ==
    IF b.fixed THEN b
    ELSE accelerate(b, <<RDiv(b.forces[1], b.mass), RDiv(b.forces[2], b.mass)>>, dt)

\* dx*dx + dy*dy
SumSquares(dx, dy) == RAdd(RMul(dx, dx), RMul(dy, dy))

\* PhysicsBody.distance_to
distance_to(self, other) ==
    Sqrt(SumSquares(RSub(self.position[1], other.position[1]),
                    RSub(self.position[2], other.position[2])))

\* circle_circle with <= for <: circles that touch collide.
circle_circle_touching(self, other) ==
    RLe(distance_to(self, other), RAdd(self.radius, other.radius))

\* The circle-circle branch of check_collision.
circle_circle(self, other) ==
    RLt(distance_to(self, other), RAdd(self.radius, other.radius))

\* The rectangle-rectangle branch of check_collision: not (self_right <
\* other_left or self_left > other_right or self_bottom < other_top or
\* self_top > other_bottom).
rect_rect(self, other) ==
    ~(\/ RLt(RAdd(self.position[1], self.width), other.position[1])
      \/ RGt(self.position[1], RAdd(other.position[1], other.width))
      \/ RLt(RAdd(self.position[2], self.height), other.position[2])
      \/ RGt(self.position[2], RAdd(other.position[2], other.height)))

\* max(low, min(c, low + size)): the point of a rectangle's side closest to c.
closest(c, low, size) == RMax(low, RMin(c, RAdd(low, size)))

\* The circle-rectangle branch of check_collision (self the circle).
circle_rect(self, other) ==
    RLt(SumSquares(RSub(self.position[1],
                        closest(self.position[1], other.position[1], other.width)),
                   RSub(self.position[2],
                        closest(self.position[2], other.position[2], other.height))),
        RMul(self.radius, self.radius))

\* check_collision without the branch that swaps a rectangle and a circle.
check_collision_circle_first(self, other) ==
    IF self.shape_type = "circle" /\ other.shape_type = "circle"
    THEN circle_circle(self, other)
    ELSE IF self.shape_type = "rectangle" /\ other.shape_type = "rectangle"
    THEN rect_rect(self, other)
    ELSE IF self.shape_type = "circle" /\ other.shape_type = "rectangle"
    THEN circle_rect(self, other)
    ELSE FALSE

\* PhysicsBody.check_collision
check_collision(self, other) ==
    IF self.shape_type = "circle" /\ other.shape_type = "circle"
    THEN circle_circle(self, other)
    ELSE IF self.shape_type = "rectangle" /\ other.shape_type = "rectangle"
    THEN rect_rect(self, other)
    ELSE IF self.shape_type = "circle" /\ other.shape_type = "rectangle"
    THEN circle_rect(self, other)
    ELSE IF other.shape_type = "circle" /\ self.shape_type = "rectangle"
    THEN circle_rect(other, self)
    ELSE FALSE

\* The vector (nx, ny) of the given length normalized, (0, 1) when the
\* length is zero.
normalize(nx, ny, length) ==
    IF RIsZero(length) THEN V(0, 1)
    ELSE <<RDiv(nx, length), RDiv(ny, length)>>

\* The unit vector along (nx, ny).
unit(nx, ny) == normalize(nx, ny, Sqrt(SumSquares(nx, ny)))

\* The collision normal of resolve_collision: the unit vector from self to
\* other, (0, 1) when the two positions coincide.
collision_normal(self, other) ==
    unit(RSub(other.position[1], self.position[1]),
         RSub(other.position[2], self.position[2]))

\* relative_velocity_normal of resolve_collision.
relative_velocity_normal(self, other, normal) ==
    RAdd(RMul(RSub(self.velocity[1], other.velocity[1]), normal[1]),
         RMul(RSub(self.velocity[2], other.velocity[2]), normal[2]))

\* The early return of resolve_collision on the sign of the relative
\* velocity along the normal.
moving_away(rvn) == RGt(rvn, Zero)

\* impulse_scalar without the 1 of (1 + e): the impulse only of the rebound.
impulse_scalar_rebound_only(self, other, rvn) ==
    RDiv(RMul(RNeg(RMin(self.restitution, other.restitution)), rvn),
         RAdd(RDiv(One, self.mass), RDiv(One, other.mass)))

\* The impulse scalar j of resolve_collision.
impulse_scalar(self, other, rvn) ==
    RDiv(RMul(RNeg(RAdd(One, RMin(self.restitution, other.restitution))), rvn),
         RAdd(RDiv(One, self.mass), RDiv(One, other.mass)))

\* The body with (dx, dy) added to its position.
shift(b, dx, dy) ==
    [b EXCEPT !.position = <<RAdd(b.position[1], dx), RAdd(b.position[2], dy)>>]

\* A positional correction that moves a lone movable body no further than
\* it moves each of two movable bodies.
separate_by_undoubled(self, other, sx, sy) ==
    IF ~self.fixed /\ ~other.fixed
    THEN [self |-> shift(self, RNeg(sx), RNeg(sy)), other |-> shift(other, sx, sy)]
    ELSE IF ~self.fixed
    THEN [self |-> shift(self, RNeg(sx), RNeg(sy)), other |-> other]
    ELSE IF ~other.fixed
    THEN [self |-> self, other |-> shift(other, sx, sy)]
    ELSE [self |-> self, other |-> other]

\* The positional correction of resolve_collision by the vector (sx, sy).
separate_by(self, other, sx, sy) ==
    IF ~self.fixed /\ ~other.fixed
    THEN [self |-> shift(self, RNeg(sx), RNeg(sy)), other |-> shift(other, sx, sy)]
    ELSE IF ~self.fixed
    THEN [self |-> shift(self, RNeg(RMul(sx, R(2))), RNeg(RMul(sy, R(2)))),
          other |-> other]
    ELSE IF ~other.fixed
    THEN [self |-> self,
          other |-> shift(other, RMul(sx, R(2)), RMul(sy, R(2)))]
    ELSE [self |-> self, other |-> other]

\* The positional correction at the end of resolve_collision.
separate(self, other, normal) ==
    separate_by(self, other, RMul(normal[1], SeparationFactor),
                RMul(normal[2], SeparationFactor))

\* The body with (dvx, dvy) added to its velocity, unless it is fixed.
kick(b, dvx, dvy) ==
    IF ~b.fixed
    THEN [b EXCEPT !.velocity = <<RAdd(b.velocity[1], dvx), RAdd(b.velocity[2], dvy)>>]
    ELSE b

\* apply_impulse with both velocity changes divided by the mass of self.
apply_impulse_by_one_mass(self, other, normal, impulse) ==
    separate(kick(self, RDiv(impulse[1], self.mass), RDiv(impulse[2], self.mass)),
             kick(other, RNeg(RDiv(impulse[1], self.mass)),
                  RNeg(RDiv(impulse[2], self.mass))),
             normal)

\* The impulse applied to both velocities, then the positional correction.
apply_impulse(self, other, normal, impulse) ==
    separate(kick(self, RDiv(impulse[1], self.mass), RDiv(impulse[2], self.mass)),
             kick(other, RNeg(RDiv(impulse[1], other.mass)),
                  RNeg(RDiv(impulse[2], other.mass))),
             normal)

\* resolve_collision from the impulse scalar j on.
resolve_with_impulse(self, other, normal, j) ==
    apply_impulse(self, other, normal, <<RMul(j, normal[1]), RMul(j, normal[2])>>)

\* resolve_collision from the relative velocity along the normal on.
resolve_at_rate(self, other, normal, rvn) ==
    IF moving_away(rvn) THEN [self |-> self, other |-> other]
    ELSE resolve_with_impulse(self, other, normal, impulse_scalar(self, other, rvn))

\* resolve_collision from the collision normal on.
resolve_along(self, other, normal) ==
    resolve_at_rate(self, other, normal, relative_velocity_normal(self, other, normal))

\* PhysicsBody.resolve_collision: the two bodies after the call.
resolve_collision(self, other) ==
    IF self.fixed /\ other.fixed THEN [self |-> self, other |-> other]
    ELSE resolve_along(self, other, collision_normal(self, other))


(***************************************************************************)
(* PhysicsEngine.  self.bodies is a dict: it is modelled as the sequence   *)
(* of its values in insertion order, which is the order every loop of the  *)
(* engine visits them in.                                                  *)
(***************************************************************************)
\* Python's None.
None == <<>>

\* options.get(key, default)
Get(options, key, default) ==
    IF key \in DOMAIN options THEN options[key] ELSE default

\* The index of the body registered under element_id, 0 when there is none.
IndexOf(bs, element_id) ==
    IF \E i \in 1..Len(bs) : bs[i].element_id = element_id
    THEN CHOOSE i \in 1..Len(bs) : bs[i].element_id = element_id
    ELSE 0

\* element_id in self.bodies
Registered(bs, element_id) == IndexOf(bs, element_id) # 0

\* add_body on a list instead of a dict: a second body under the same id.
add_body_append(bs, body) == Append(bs, body)

\* PhysicsEngine.add_body: self.bodies[body.element_id] = body
add_body(bs, body) ==
    IF Registered(bs, body.element_id)
    THEN [bs EXCEPT ![IndexOf(bs, body.element_id)] = body]
    ELSE Append(bs, body)

\* The shape create_body_from_element gives the body it constructed.
shape_body(body, element_type, options) ==
    IF element_type = "circle"
    THEN [body EXCEPT !.shape_type = "circle",
                      !.radius = Get(options, "radius", R(20))]
    ELSE IF element_type = "rect"
    THEN [body EXCEPT !.shape_type = "rectangle",
                      !.width = Get(options, "width", R(40)),
                      !.height = Get(options, "height", R(40))]
    ELSE body

\* The body PhysicsEngine.create_body_from_element constructs.
create_body_from_element(element_id, element_type, position, options) ==
    shape_body(PhysicsBody(element_id, Get(options, "mass", R(1)), position,
                           Get(options, "velocity", VZero),
                           Get(options, "restitution", <<4, 5>>),
                           Get(options, "friction", <<1, 10>>)),
               element_type, options)

\* PhysicsEngine.remove_body
remove_body(bs, element_id) ==
    IF Registered(bs, element_id)
    THEN SelectSeq(bs, LAMBDA b : b.element_id # element_id)
    ELSE bs

\* The gravity loop of PhysicsEngine.update.
apply_gravity(bs, g) ==
    [i \in 1..Len(bs) |->
        IF ~bs[i].fixed
        THEN apply_force(bs[i], <<RMul(g[1], bs[i].mass), RMul(g[2], bs[i].mass)>>)
        ELSE bs[i]]

\* bounce without the restitution factor.
bounce_lossless(b, axis, at) ==
    [b EXCEPT !.position[axis] = at,
              !.velocity[axis] = RNeg(b.velocity[axis])]

\* One boundary test of PhysicsEngine.update: the body with coordinate
\* axis set to at and the velocity on that axis reflected.
bounce(b, axis, at) ==
    [b EXCEPT !.position[axis] = at,
              !.velocity[axis] = RMul(RNeg(b.velocity[axis]), b.restitution)]

\* The four boundary tests of PhysicsEngine.update for a circle.
circle_bottom(b, max_y) ==
    IF RGt(RAdd(b.position[2], b.radius), max_y)
    THEN bounce(b, 2, RSub(max_y, b.radius)) ELSE b
circle_top(b, min_y) ==
    IF RLt(RSub(b.position[2], b.radius), min_y)
    THEN bounce(b, 2, RAdd(min_y, b.radius)) ELSE b
circle_right(b, max_x) ==
    IF RGt(RAdd(b.position[1], b.radius), max_x)
    THEN bounce(b, 1, RSub(max_x, b.radius)) ELSE b
circle_left(b, min_x) ==
    IF RLt(RSub(b.position[1], b.radius), min_x)
    THEN bounce(b, 1, RAdd(min_x, b.radius)) ELSE b

\* The boundary handling of PhysicsEngine.update for a circle: bottom, top,
\* right, left, each on the body the test before it left.
clamp_circle(b, bnds) ==
    circle_left(circle_right(circle_top(circle_bottom(b, bnds[4]), bnds[2]),
                             bnds[3]), bnds[1])

\* The four boundary tests of PhysicsEngine.update for a rectangle.
rectangle_bottom(b, max_y) ==
    IF RGt(RAdd(b.position[2], b.height), max_y)
    THEN bounce(b, 2, RSub(max_y, b.height)) ELSE b
rectangle_top(b, min_y) ==
    IF RLt(b.position[2], min_y) THEN bounce(b, 2, min_y) ELSE b
rectangle_right(b, max_x) ==
    IF RGt(RAdd(b.position[1], b.width), max_x)
    THEN bounce(b, 1, RSub(max_x, b.width)) ELSE b
rectangle_left(b, min_x) ==
    IF RLt(b.position[1], min_x) THEN bounce(b, 1, min_x) ELSE b

\* The boundary handling of PhysicsEngine.update for a rectangle.
clamp_rectangle(b, bnds) ==
    rectangle_left(rectangle_right(rectangle_top(rectangle_bottom(b, bnds[4]),
                                                 bnds[2]), bnds[3]), bnds[1])

\* The boundary handling of PhysicsEngine.update for one body.
handle_boundary(b, bnds) ==
    IF b.shape_type = "circle" THEN clamp_circle(b, bnds)
    ELSE IF b.shape_type = "rectangle" THEN clamp_rectangle(b, bnds)
    ELSE b

\* The "update all bodies" loop of PhysicsEngine.update.
integrate_all(bs, dt, bnds) ==
    [i \in 1..Len(bs) |-> handle_boundary(body_update(bs[i], dt), bnds)]

\* The pairs (i, j), i < j, in the order the collision loop visits them.
RECURSIVE PairsFrom(_, _, _)
PairsFrom(n, i, j) ==
    IF i >= n THEN <<>>
    ELSE IF j > n THEN PairsFrom(n, i + 1, i + 2)
    ELSE <<(<<i, j>>)>> \o PairsFrom(n, i, j + 1)

\* A collision loop whose inner loop starts one body too late.
Pairs_skipping_neighbour(n) == PairsFrom(n, 1, 3)

Pairs(n) == PairsFrom(n, 1, 2)

\* A collision loop that flags only the first body of a colliding pair.
mark_collision_first_only(bs, i, j, r) ==
    [bs EXCEPT ![i] = [r.self EXCEPT !.in_collision = TRUE],
               ![j] = r.other]

\* The bodies i and j replaced by the resolved pair r, flagged as colliding.
mark_collision(bs, i, j, r) ==
    [bs EXCEPT ![i] = [r.self EXCEPT !.in_collision = TRUE],
               ![j] = [r.other EXCEPT !.in_collision = TRUE]]

\* The body of the collision loop of PhysicsEngine.update for one pair.
collide_pair(bs, i, j) ==
    IF check_collision(bs[i], bs[j])
    THEN mark_collision(bs, i, j, resolve_collision(bs[i], bs[j]))
    ELSE [bs EXCEPT ![i].in_collision = FALSE, ![j].in_collision = FALSE]

\* The collision loop of PhysicsEngine.update over the pairs ps[k..].
RECURSIVE collide_all(_, _, _)
collide_all(bs, ps, k) ==
    IF k > Len(ps) THEN bs
    ELSE collide_all(collide_pair(bs, ps[k][1], ps[k][2]), ps, k + 1)

\* PhysicsEngine._update_svg_positions: one execute_js call per body, here
\* the element id, the position and the collision flag it writes.
update_svg_positions(bs) ==
    [i \in 1..Len(bs) |->
        [id |-> bs[i].element_id, position |-> bs[i].position,
         in_collision |-> IF bs[i].shape_type \in {"circle", "rectangle"}
                          THEN bs[i].in_collision ELSE FALSE]]

\* The apply_force calls of the gravity loop over bs[k..]: one per body that
\* is not fixed.
RECURSIVE gravity_calls(_, _)
gravity_calls(bs, k) ==
    IF k > Len(bs) THEN <<>>
    ELSE IF bs[k].fixed THEN gravity_calls(bs, k + 1)
    ELSE <<[call |-> "apply_gravity", id |-> bs[k].element_id]>>
             \o gravity_calls(bs, k + 1)

\* The calls of the integration loop: body.update and then the boundary
\* handling, body by body.
integrate_calls(bs) ==
    [i \in 1..Len(bs) |-> [call |-> "integrate", id |-> bs[i].element_id]]

\* The check_collision calls of the collision loop over the pairs ps[k..],
\* each with its two bodies and what it returned.
RECURSIVE collision_calls(_, _, _)
collision_calls(bs, ps, k) ==
    IF k > Len(ps) THEN <<>>
    ELSE <<[call |-> "check_collision",
            id |-> bs[ps[k][1]].element_id,
            other |-> bs[ps[k][2]].element_id,
            hit |-> check_collision(bs[ps[k][1]], bs[ps[k][2]])]>>
         \o collision_calls(collide_pair(bs, ps[k][1], ps[k][2]), ps, k + 1)

\* The execute_js calls of _update_svg_positions.
render_calls(bs) ==
    [i \in 1..Len(bs) |->
        [call |-> "render", id |-> bs[i].element_id,
         position |-> bs[i].position, in_collision |-> bs[i].in_collision]]

\* The calls PhysicsEngine.update makes, in the order it makes them; after
\* is the state the collision loop leaves.
update_calls(bs, dt, g, bnds, after) ==
    gravity_calls(bs, 1)
        \o integrate_calls(bs)
        \o collision_calls(integrate_all(apply_gravity(bs, g), dt, bnds),
                           Pairs(Len(bs)), 1)
        \o render_calls(after)

\* A time step without the cap on the measured interval.
time_step_uncapped(dt, current_time, last_time) ==
    IF dt = None
    THEN IF last_time = None THEN <<1, 60>>
         ELSE RSub(current_time, last_time)
    ELSE dt

\* The time step PhysicsEngine.update uses: dt as given, or derived from
\* the clock (in seconds) when dt is None.
time_step(dt, current_time, last_time) ==
    IF dt = None
    THEN IF last_time = None THEN <<1, 60>>
         ELSE RMin(RSub(current_time, last_time), <<1, 30>>)
    ELSE dt

\* The collision loop of PhysicsEngine.update over all pairs.
collide_bodies(bs) == collide_all(bs, Pairs(Len(bs)), 1)

\* self.bodies after PhysicsEngine.update with time step dt.
engine_update(bs, dt, g, bnds) ==
    collide_bodies(integrate_all(apply_gravity(bs, g), dt, bnds))

\* The force of the given magnitude along direction added to the body.
push_along(b, direction, magnitude) ==
    apply_force(b, <<RMul(direction[1], magnitude), RMul(direction[2], magnitude)>>)

\* The direction of apply_explosion_force for a body at offset (dx, dy).
explosion_direction(dx, dy, distance) ==
    IF RGt(distance, Zero) THEN <<RDiv(dx, distance), RDiv(dy, distance)>>
    ELSE V(0, -1)

\* explosion_magnitude with the falloff inverted: distance/radius for
\* 1 - distance/radius.
explosion_magnitude_inverted(force, distance, radius) ==
    RMul(force, RDiv(distance, radius))

\* force_magnitude of apply_explosion_force: force * distance_factor.
explosion_magnitude(force, distance, radius) ==
    RMul(force, RSub(One, RDiv(distance, radius)))

\* The loop body of apply_explosion_force from the distance on.
explode_at(b, dx, dy, distance, force, radius) ==
    IF RLt(distance, radius)
    THEN push_along(b, explosion_direction(dx, dy, distance),
                    explosion_magnitude(force, distance, radius))
    ELSE b

\* The loop body of apply_explosion_force for a body at offset (dx, dy).
explode_from(b, dx, dy, force, radius) ==
    explode_at(b, dx, dy, Sqrt(SumSquares(dx, dy)), force, radius)

\* The loop body of PhysicsEngine.apply_explosion_force for one body.
explode_body(b, position, force, radius) ==
    IF b.fixed THEN b
    ELSE explode_from(b, RSub(b.position[1], position[1]),
                      RSub(b.position[2], position[2]), force, radius)

\* PhysicsEngine.apply_explosion_force
apply_explosion_force(bs, position, force, radius) ==
    [i \in 1..Len(bs) |-> explode_body(bs[i], position, force, radius)]

\* The area apply_wind_force takes for a body.
wind_area(b) ==
    IF b.shape_type = "circle" THEN RMul(b.radius, R(2))
    ELSE RMul(b.width, b.height)

\* The wind force on a body of the given area.
wind_push(b, direction, strength, area) ==
    apply_force(b, <<RMul(RMul(direction[1], strength), area),
                     RMul(RMul(direction[2], strength), area)>>)

\* The loop body of PhysicsEngine.apply_wind_force for one body.
wind_body(b, direction, strength) ==
    IF ~b.fixed THEN wind_push(b, direction, strength, wind_area(b)) ELSE b

\* PhysicsEngine.apply_wind_force
apply_wind_force(bs, direction, strength) ==
    [i \in 1..Len(bs) |-> wind_body(bs[i], direction, strength)]

\* The distance of PhysicsEngine.apply_attraction_force for one body.
attractor_distance(b, attractor_position) ==
    Sqrt(SumSquares(RSub(attractor_position[1], b.position[1]),
                    RSub(attractor_position[2], b.position[2])))

\* Whether the loop body of apply_attraction_force divides by a zero
\* distance for this body (ZeroDivisionError).
attract_raises(b, attractor_position, min_distance) ==
    /\ ~b.fixed
    /\ ~RLt(attractor_distance(b, attractor_position), min_distance)
    /\ RIsZero(attractor_distance(b, attractor_position))

\* The loop body of apply_attraction_force from the distance on.
attract_at(b, dx, dy, distance, strength, min_distance) ==
    IF RLt(distance, min_distance) THEN b
    ELSE push_along(b, <<RDiv(dx, distance), RDiv(dy, distance)>>,
                    RDiv(RMul(strength, b.mass), RMul(distance, distance)))

\* The loop body of PhysicsEngine.apply_attraction_force for one body on
\* which it does not raise.
attract_body(b, attractor_position, strength, min_distance) ==
    IF ~b.fixed
    THEN attract_at(b, RSub(attractor_position[1], b.position[1]),
                    RSub(attractor_position[2], b.position[2]),
                    attractor_distance(b, attractor_position), strength, min_distance)
    ELSE b

\* The indices of the bodies on which apply_attraction_force raises.
raising(bs, attractor_position, min_distance) ==
    {i \in 1..Len(bs) : attract_raises(bs[i], attractor_position, min_distance)}

\* The first index of bad, n + 1 when bad is empty.
first_of(bad, n) ==
    IF bad = {} THEN n + 1 ELSE CHOOSE i \in bad : \A k \in bad : i <= k

\* apply_attraction_force run on the bodies before index first.
attract_before(bs, attractor_position, strength, min_distance, first) ==
    [i \in 1..Len(bs) |->
        IF i < first
        THEN attract_body(bs[i], attractor_position, strength, min_distance)
        ELSE bs[i]]

\* PhysicsEngine.apply_attraction_force: the bodies after the call and
\* whether it raised; the bodies visited before the raise keep their force.
apply_attraction_force(bs, attractor_position, strength, min_distance) ==
    [bodies |-> attract_before(bs, attractor_position, strength, min_distance,
                               first_of(raising(bs, attractor_position, min_distance),
                                        Len(bs))),
     raised |-> raising(bs, attractor_position, min_distance) # {}]

\* What PhysicsEngine.create_spring returns: None, or the closure
\* apply_spring_force, here <<sp>> with sp the values it closes over.
create_spring(bs, body_a_id, body_b_id, stiffness, rest_length, damping) ==
    IF ~Registered(bs, body_a_id) \/ ~Registered(bs, body_b_id)
    THEN None
    ELSE <<[body_a_id |-> body_a_id, body_b_id |-> body_b_id,
            stiffness |-> stiffness, rest_length |-> rest_length,
            damping |-> damping]>>

\* relative_velocity_along_spring of apply_spring_force.
relative_velocity_along_spring(body_a, body_b, dx, dy, distance) ==
    RAdd(RMul(RSub(body_b.velocity[1], body_a.velocity[1]), RDiv(dx, distance)),
         RMul(RSub(body_b.velocity[2], body_a.velocity[2]), RDiv(dy, distance)))

\* spring_force_magnitude with the displacement taken as rest_length - distance.
spring_force_magnitude_flipped(sp, body_a, body_b, dx, dy, distance) ==
    RAdd(RMul(sp.stiffness, RSub(sp.rest_length, distance)),
         RMul(RNeg(sp.damping),
              relative_velocity_along_spring(body_a, body_b, dx, dy, distance)))

\* total_force_magnitude of apply_spring_force for two bodies at a distance
\* that is not zero: force_magnitude + damping_force.
spring_force_magnitude(sp, body_a, body_b, dx, dy, distance) ==
    RAdd(RMul(sp.stiffness, RSub(distance, sp.rest_length)),
         RMul(RNeg(sp.damping),
              relative_velocity_along_spring(body_a, body_b, dx, dy, distance)))

\* force_a on body ia and its opposite on body ib.
spring_apply(bs, ia, ib, force_a) ==
    [bs EXCEPT ![ia] = apply_force(bs[ia], force_a),
               ![ib] = apply_force(bs[ib], <<RNeg(force_a[1]), RNeg(force_a[2])>>)]

\* apply_spring_force from total_force_magnitude on.
spring_push(bs, ia, ib, dx, dy, distance, total) ==
    spring_apply(bs, ia, ib, <<RMul(RDiv(dx, distance), total),
                               RMul(RDiv(dy, distance), total)>>)

\* apply_spring_force from the distance on.
spring_at(bs, sp, ia, ib, dx, dy, distance) ==
    IF RIsZero(distance) THEN bs
    ELSE spring_push(bs, ia, ib, dx, dy, distance,
                     spring_force_magnitude(sp, bs[ia], bs[ib], dx, dy, distance))

\* apply_spring_force for the two bodies at offset (dx, dy).
spring_across(bs, sp, ia, ib, dx, dy) ==
    spring_at(bs, sp, ia, ib, dx, dy, Sqrt(SumSquares(dx, dy)))

\* apply_spring_force for the bodies at indices ia and ib (0: not registered).
spring_between(bs, sp, ia, ib) ==
    IF ia = 0 \/ ib = 0 THEN bs
    ELSE spring_across(bs, sp, ia, ib,
                       RSub(bs[ib].position[1], bs[ia].position[1]),
                       RSub(bs[ib].position[2], bs[ia].position[2]))

\* The closure apply_spring_force of PhysicsEngine.create_spring: the
\* bodies after one invocation.
apply_spring_force(bs, sp) ==
    spring_between(bs, sp, IndexOf(bs, sp.body_a_id), IndexOf(bs, sp.body_b_id))


(***************************************************************************)
(* State.  The engine's fields, the clock behind time.time() (in ticks of  *)
(* 1/60 s), the spring closures the caller holds, the ids created and not  *)
(* removed since (live), and a record of the last call: its name, its      *)
(* arguments, what it returned or raised, and self.bodies as they were     *)
(* before it.                                                              *)
(***************************************************************************)
VARIABLES bodies, gravity, bounds, running, last_time, now, springs, live, last, used

vars == <<bodies, gravity, bounds, running, last_time, now, springs, live, last, used>>

\* One tick of the clock, in seconds.
ClockTick == <<1, 60>>
\* time.time()
CurrentTime == RMul(R(now), ClockTick)

\* Bounds of the model: calls of each kind in one behaviour, clock ticks.
MaxCreates == 4
MaxRemoves == 4
MaxUpdates == 2
MaxForces == 1
MaxFixes == 1
MaxTicks == 3
MaxSprings == 1
MaxCalls == 1

Ids == {"a", "b", "c"}

\* The calls made so far, the ids ever created, the time of the previous
\* update() call and of the last start() call made while stopped (None when
\* there was none), and the registered ids that create_body_from_element
\* was given an element type other than 'circle' and 'rect' for.
NoCalls == [create |-> 0, remove |-> 0, update |-> 0, force |-> 0, fix |-> 0,
            call |-> 0, made |-> {}, updated_at |-> None, started_at |-> None,
            unshaped |-> {}]

\* The element types create_body_from_element gives a shape to.
ElementTypes == {"circle", "rect"}

\* The ids registered in bs.
IdsOf(bs) == {bs[i].element_id : i \in 1..Len(bs)}

\* PhysicsEngine.__init__, followed by the calls that register bs.
EngineInit(g, bnds, bs) ==
    /\ bodies = bs
    /\ gravity = g
    /\ bounds = bnds
    /\ running = FALSE
    /\ last_time = None
    /\ now = 0
    /\ springs = {}
    /\ live = IdsOf(bs)
    /\ last = [op |-> "init", pre |-> <<>>]
    /\ used = [NoCalls EXCEPT !.made = IdsOf(bs)]

\* engine.create_body_from_element(id, p.type, p.position, p.options)
CreateBody(id, p) ==
    /\ used.create < MaxCreates
    /\ bodies' = add_body(bodies,
                    create_body_from_element(id, p.type, p.position, p.options))
    /\ live' = live \cup {id}
    /\ last' = [op |-> "create_body", pre |-> bodies, id |-> id]
    /\ used' = [used EXCEPT !.create = @ + 1, !.made = @ \cup {id},
                            !.unshaped = IF p.type \in ElementTypes
                                         THEN @ \ {id} ELSE @ \cup {id}]
    /\ UNCHANGED <<gravity, bounds, running, last_time, now, springs>>

\* engine.remove_body(id)
RemoveBody(id) ==
    /\ used.remove < MaxRemoves
    /\ bodies' = remove_body(bodies, id)
    /\ live' = live \ {id}
    /\ last' = [op |-> "remove_body", pre |-> bodies, id |-> id]
    /\ used' = [used EXCEPT !.remove = @ + 1, !.unshaped = @ \ {id}]
    /\ UNCHANGED <<gravity, bounds, running, last_time, now, springs>>

\* engine.bodies[id].set_fixed(fixed)
SetFixed(id, fixed) ==
    /\ used.fix < MaxFixes
    /\ Registered(bodies, id)
    /\ bodies' = [bodies EXCEPT ![IndexOf(bodies, id)] = set_fixed(@, fixed)]
    /\ last' = [op |-> "set_fixed", pre |-> bodies, id |-> id]
    /\ used' = [used EXCEPT !.fix = @ + 1]
    /\ UNCHANGED <<gravity, bounds, running, last_time, now, springs, live>>

\* engine.bodies[id].apply_force(force)
ApplyForce(id, force) ==
    /\ used.force < MaxForces
    /\ Registered(bodies, id)
    /\ bodies' = [bodies EXCEPT ![IndexOf(bodies, id)] = apply_force(@, force)]
    /\ last' = [op |-> "apply_force", pre |-> bodies, id |-> id, force |-> force]
    /\ used' = [used EXCEPT !.force = @ + 1]
    /\ UNCHANGED <<gravity, bounds, running, last_time, now, springs, live>>

\* The state engine.update leaves: the bodies after the step, rendered.
StepTo(dt, step, after) ==
    /\ bodies' = after
    /\ last' = [op |-> "update", pre |-> bodies, dt |-> dt, step |-> step,
                at |-> CurrentTime, was_last_time |-> last_time,
                rendered |-> update_svg_positions(after),
                calls |-> update_calls(bodies, step, gravity, bounds, after)]

\* engine.update(dt); dt may be None.
Update(dt) ==
    /\ used.update < MaxUpdates
    /\ StepTo(dt, time_step(dt, CurrentTime, last_time),
              engine_update(bodies, time_step(dt, CurrentTime, last_time),
                            gravity, bounds))
    /\ last_time' = CurrentTime
    /\ used' = [used EXCEPT !.update = @ + 1, !.updated_at = CurrentTime]
    /\ UNCHANGED <<gravity, bounds, running, now, springs, live>>

\* start() that flips the flag: a second start() stops the engine.
running_after_start_flipped(was_running) == ~was_running

\* self.running after start().
running_after_start(was_running) == TRUE

\* start() that leaves the clock alone.
last_time_after_start_kept(was_running, was_last_time, current_time) ==
    was_last_time

\* self.last_time after start(): untouched by the early return when the
\* engine is running, time.time() otherwise.
last_time_after_start(was_running, was_last_time, current_time) ==
    IF was_running THEN was_last_time ELSE current_time

\* self.running after stop().
running_after_stop(was_running) == FALSE

\* engine.start(fps), fps # 0
Start(fps) ==
    /\ last.op # "start"
    /\ running' = running_after_start(running)
    /\ last_time' = last_time_after_start(running, last_time, CurrentTime)
    /\ last' = [op |-> "start", pre |-> bodies, was_running |-> running,
                was_last_time |-> last_time]
    /\ used' = IF running THEN used ELSE [used EXCEPT !.started_at = CurrentTime]
    /\ UNCHANGED <<bodies, gravity, bounds, now, springs, live>>

\* engine.stop()
Stop ==
    /\ last.op # "stop"
    /\ running' = running_after_stop(running)
    /\ last' = [op |-> "stop", pre |-> bodies, was_running |-> running,
                was_last_time |-> last_time]
    /\ UNCHANGED <<bodies, gravity, bounds, last_time, now, springs, live, used>>

\* Time passes between two calls.
Tick ==
    /\ now < MaxTicks
    /\ now' = now + 1
    /\ UNCHANGED <<bodies, gravity, bounds, running, last_time, springs, live,
                   last, used>>

\* engine.apply_explosion_force(position, force, radius)
Explosion(position, force, radius) ==
    /\ used.force < MaxForces
    /\ bodies' = apply_explosion_force(bodies, position, force, radius)
    /\ last' = [op |-> "apply_explosion_force", pre |-> bodies,
                position |-> position, force |-> force, radius |-> radius]
    /\ used' = [used EXCEPT !.force = @ + 1]
    /\ UNCHANGED <<gravity, bounds, running, last_time, now, springs, live>>

\* engine.apply_wind_force(direction, strength)
Wind(direction, strength) ==
    /\ used.force < MaxForces
    /\ bodies' = apply_wind_force(bodies, direction, strength)
    /\ last' = [op |-> "apply_wind_force", pre |-> bodies,
                direction |-> direction, strength |-> strength]
    /\ used' = [used EXCEPT !.force = @ + 1]
    /\ UNCHANGED <<gravity, bounds, running, last_time, now, springs, live>>

\* The state apply_attraction_force leaves, r what it did to the bodies.
AttractTo(attractor_position, strength, min_distance, r) ==
    /\ bodies' = r.bodies
    /\ last' = [op |-> "apply_attraction_force", pre |-> bodies,
                attractor_position |-> attractor_position,
                strength |-> strength, min_distance |-> min_distance,
                raised |-> r.raised]

\* engine.apply_attraction_force(attractor_position, strength, min_distance)
Attraction(attractor_position, strength, min_distance) ==
    /\ used.force < MaxForces
    /\ AttractTo(attractor_position, strength, min_distance,
                 apply_attraction_force(bodies, attractor_position, strength,
                                        min_distance))
    /\ used' = [used EXCEPT !.force = @ + 1]
    /\ UNCHANGED <<gravity, bounds, running, last_time, now, springs, live>>

\* The caller keeps what create_spring returned, unless it is None.
KeepSpring(ret) ==
    /\ springs' = IF ret = None THEN springs ELSE springs \cup {ret[1]}
    /\ last' = [op |-> "create_spring", pre |-> bodies, ret |-> ret]

\* engine.create_spring(body_a_id, body_b_id, stiffness, rest_length, damping);
\* the caller keeps the closure it returns.
CreateSpring(body_a_id, body_b_id, stiffness, rest_length, damping) ==
    /\ Cardinality(springs) < MaxSprings
    /\ last.op # "create_spring"
    /\ KeepSpring(create_spring(bodies, body_a_id, body_b_id, stiffness,
                                rest_length, damping))
    /\ UNCHANGED <<bodies, gravity, bounds, running, last_time, now, live, used>>

\* The caller invokes a spring closure it holds.
InvokeSpring(sp) ==
    /\ used.force < MaxForces
    /\ sp \in springs
    /\ bodies' = apply_spring_force(bodies, sp)
    /\ last' = [op |-> "apply_spring_force", pre |-> bodies, spring |-> sp]
    /\ used' = [used EXCEPT !.force = @ + 1]
    /\ UNCHANGED <<gravity, bounds, running, last_time, now, springs, live>>

\* The two bodies resolve_collision leaves, as a registry.
both(r) == <<r.self, r.other>>

\* bodies[1].resolve_collision(bodies[2]), called on two bodies directly.
ResolveCollision ==
    /\ used.call < MaxCalls
    /\ Len(bodies) = 2
    /\ bodies' = both(resolve_collision(bodies[1], bodies[2]))
    /\ last' = [op |-> "resolve_collision", pre |-> bodies]
    /\ used' = [used EXCEPT !.call = @ + 1]
    /\ UNCHANGED <<gravity, bounds, running, last_time, now, springs, live>>

\* bodies[i].check_collision(bodies[j]), called on two bodies directly.
CheckCollision(i, j) ==
    /\ last.op = "init"
    /\ i \in 1..Len(bodies) /\ j \in 1..Len(bodies)
    /\ last' = [op |-> "check_collision", pre |-> bodies, self |-> i, other |-> j,
                ret |-> check_collision(bodies[i], bodies[j])]
    /\ UNCHANGED <<bodies, gravity, bounds, running, last_time, now, springs,
                   live, used>>

(***************************************************************************)
(* Scenes.  A scene is what a host builds with create_body_from_element    *)
(* and set_fixed, as initialize_physics_animation does (a fixed floor      *)
(* rectangle and circles above it).                                        *)
(***************************************************************************)
\* options of create_body_from_element
Options(mass, velocity, restitution, friction) ==
    [mass |-> mass, velocity |-> velocity, restitution |-> restitution,
     friction |-> friction]
WithKeys(options, more) ==
    [k \in DOMAIN options \cup DOMAIN more |->
        IF k \in DOMAIN more THEN more[k] ELSE options[k]]

\* The body a scene entry asks for: created, then fixed if it says so.
Built(c) ==
    set_fixed(create_body_from_element(c.id, c.preset.type, c.preset.position,
                                       c.preset.options), c.fixed)

\* The registry after create_body_from_element (and set_fixed(True) when
\* c.fixed) for each entry of cs in turn.
RECURSIVE Build(_, _, _)
Build(bs, cs, k) ==
    IF k > Len(cs) THEN bs
    ELSE Build(add_body(bs, Built(cs[k])), cs, k + 1)
Scene(cs) == Build(<<>>, cs, 1)
Make(id, preset, fixed) == [id |-> id, preset |-> preset, fixed |-> fixed]

(***************************************************************************)
(* Spec: an engine in a small world, holding one of a few scenes, stepped  *)
(* by update with forces, force fields and springs applied in between.     *)
(***************************************************************************)
WorldBounds == <<R(0), R(0), R(20), R(20)>>
WorldGravity == V(0, 2)

\* A circle of radius 2 with the default mass, restitution and friction.
Ball == [type |-> "circle", position |-> V(5, 5), options |-> [radius |-> R(2)]]
\* A circle right of the world, moving back in.
Stray == [type |-> "circle", position |-> V(25, 5),
          options |-> WithKeys(Options(R(1), V(-1, 0), <<1, 2>>, Zero),
                               [radius |-> R(2)])]
\* A heavier, frictionless, elastic circle below Ball, overlapping it and rising.
Riser == [type |-> "circle", position |-> V(5, 8),
          options |-> WithKeys(Options(R(2), V(0, -1), One, Zero),
                               [radius |-> R(2)])]
\* A circle touching Ball from the lower right, moving left.
Drifter == [type |-> "circle", position |-> V(8, 9),
            options |-> [radius |-> R(3), velocity |-> V(-3, 0)]]
\* A floor rectangle that sticks out of the bottom of the world.
Floor == [type |-> "rect", position |-> V(4, 17),
          options |-> [width |-> R(6), height |-> R(4), mass |-> R(100)]]
\* A shape kind the engine has no collision test for.
Blob == [type |-> "ellipse", position |-> V(5, 5), options |-> <<>>]

Scenes ==
    {Scene(<<>>),
     Scene(<<Make("a", Ball, FALSE)>>),
     Scene(<<Make("a", Stray, TRUE)>>),
     Scene(<<Make("a", Ball, FALSE), Make("b", Riser, FALSE)>>),
     Scene(<<Make("a", Ball, TRUE), Make("b", Riser, FALSE)>>),
     Scene(<<Make("c", Floor, TRUE), Make("a", Stray, FALSE)>>),
     Scene(<<Make("b", Riser, FALSE), Make("a", Ball, FALSE), Make("c", Floor, TRUE)>>),
     Scene(<<Make("a", Ball, FALSE), Make("b", Drifter, FALSE), Make("c", Blob, FALSE)>>)}

DtInputs == {R(1), <<1, 2>>}
Forces == {V(3, -4)}
ExplosionInputs == {[position |-> V(5, 5), force |-> R(10), radius |-> R(10)]}
WindInputs == {[direction |-> V(1, 0), strength |-> <<1, 2>>]}
AttractionInputs ==
    {[position |-> V(5, 9), strength |-> R(50), min_distance |-> R(1)]}
SpringInputs == {[stiffness |-> <<1, 2>>, rest_length |-> R(5), damping |-> <<1, 10>>]}

Init == \E bs \in Scenes : EngineInit(WorldGravity, WorldBounds, bs)

Next ==
    \/ \E dt \in DtInputs : Update(dt)
    \/ \E id \in Ids : \E fixed \in BOOLEAN : SetFixed(id, fixed)
    \/ \E id \in Ids : \E force \in Forces : ApplyForce(id, force)
    \/ \E x \in ExplosionInputs : Explosion(x.position, x.force, x.radius)
    \/ \E w \in WindInputs : Wind(w.direction, w.strength)
    \/ \E x \in AttractionInputs : Attraction(x.position, x.strength, x.min_distance)
    \/ \E k \in SpringInputs :
          CreateSpring("a", "b", k.stiffness, k.rest_length, k.damping)
    \/ \E sp \in springs : InvokeSpring(sp)

Spec == Init /\ [][Next]_vars

\* C1: for every body whose fixed flag is true, position and velocity are the
\* same after Engine.update() as before it, wherever the body lies relative
\* to the world bounds, whatever overlaps it and whatever forces were applied.
C1_FixedInvariance ==
    last.op = "update" =>
        \A i \in 1..Len(last.pre) :
            last.pre[i].fixed =>
                /\ bodies[i].position = last.pre[i].position
                /\ bodies[i].velocity = last.pre[i].velocity

(***************************************************************************)
(* SpecResolve: resolve_collision on two overlapping circles, for every    *)
(* combination of relative position, velocities, masses, restitutions and  *)
(* fixed flags below.  The offsets have rational lengths, so the normal    *)
(* is exact.                                                               *)
(***************************************************************************)
ResolveOffsets == {V(0, 0), V(3, 0), V(0, -3), V(3, 4), V(-4, 3)}
ResolveSelfVelocities == {V(0, 0), V(2, 0), V(-2, 0), V(3, 4), V(-3, -4), V(1, -1)}
ResolveOtherVelocities == {V(0, 0), V(-1, 0), V(-3, -4)}
ResolveSelfRestitutions == {One, <<4, 5>>, Zero}
ResolveOtherRestitutions == {One, <<1, 2>>}
ResolveOtherMasses == {R(1), R(3)}

ResolvePairs ==
    {Scene(<<Make("a", [type |-> "circle", position |-> V(5, 5),
                        options |-> WithKeys(Options(R(1), vs, es, Zero),
                                             [radius |-> R(3)])], fs),
             Make("b", [type |-> "circle",
                        position |-> <<RAdd(R(5), off[1]), RAdd(R(5), off[2])>>,
                        options |-> WithKeys(Options(mo, vo, eo, Zero),
                                             [radius |-> R(3)])], fo)>>) :
        off \in ResolveOffsets, vs \in ResolveSelfVelocities,
        vo \in ResolveOtherVelocities, es \in ResolveSelfRestitutions,
        eo \in ResolveOtherRestitutions, mo \in ResolveOtherMasses,
        fs \in BOOLEAN, fo \in BOOLEAN}

InitResolve == \E bs \in ResolvePairs : EngineInit(WorldGravity, WorldBounds, bs)

NextResolve == ResolveCollision

SpecResolve == InitResolve /\ [][NextResolve]_vars

\* a . b
Dot(a, b) == RAdd(RMul(a[1], b[1]), RMul(a[2], b[2]))
\* a - b
VSub(a, b) == <<RSub(a[1], b[1]), RSub(a[2], b[2])>>

\* The rate of change of the squared distance between self and other, halved:
\* negative when the two approach each other along the line from self to
\* other, positive when they move apart.
ClosingRate(self, other) ==
    Dot(VSub(other.velocity, self.velocity), VSub(other.position, self.position))
Approaching(self, other) == RLt(ClosingRate(self, other), Zero)
Separating(self, other) == RGt(ClosingRate(self, other), Zero)

SameMotion(b, c) == b.position = c.position /\ b.velocity = c.velocity

\* C2: resolve_collision changes no velocity and no position when the two
\* bodies are separating, and applies the impulse (a velocity changes) and the
\* positional correction (a position changes) when they are approaching.
C2_SkipsOnlyWhenSeparating ==
    (last.op = "resolve_collision" /\ ~(last.pre[1].fixed /\ last.pre[2].fixed)) =>
        /\ Separating(last.pre[1], last.pre[2]) =>
              SameMotion(bodies[1], last.pre[1]) /\ SameMotion(bodies[2], last.pre[2])
        /\ Approaching(last.pre[1], last.pre[2]) =>
              /\ \E i \in 1..2 : bodies[i].velocity # last.pre[i].velocity
              /\ \E i \in 1..2 : bodies[i].position # last.pre[i].position

\* The relative velocity of self and other along the unit vector n.
AlongNormal(self, other, n) == Dot(VSub(self.velocity, other.velocity), n)

\* C3: for two overlapping non-fixed bodies approaching each other, after
\* resolve_collision the component of the relative velocity along the
\* collision normal is -e times its value before, e the smaller restitution.
C3_NormalVelocityReversed ==
    (/\ last.op = "resolve_collision"
     /\ ~last.pre[1].fixed /\ ~last.pre[2].fixed
     /\ check_collision(last.pre[1], last.pre[2])
     /\ Approaching(last.pre[1], last.pre[2])) =>
        LET n == collision_normal(last.pre[1], last.pre[2])
            e == RMin(last.pre[1].restitution, last.pre[2].restitution)
        IN  AlongNormal(bodies[1], bodies[2], n)
              = RMul(RNeg(e), AlongNormal(last.pre[1], last.pre[2], n))

\* The squared magnitude of the relative velocity of two bodies.
RelativeSpeed2(self, other) ==
    Dot(VSub(self.velocity, other.velocity), VSub(self.velocity, other.velocity))

\* The relative velocity is not zero and lies on the line through the centres.
HeadOn(self, other) ==
    LET rv == VSub(self.velocity, other.velocity)
        d == VSub(other.position, self.position)
    IN  /\ rv # VZero
        /\ d # VZero
        /\ RSub(RMul(rv[1], d[2]), RMul(rv[2], d[1])) = Zero

ElasticEqualPair(self, other) ==
    /\ self.shape_type = "circle" /\ other.shape_type = "circle"
    /\ ~self.fixed /\ ~other.fixed
    /\ self.mass = other.mass
    /\ self.restitution = One /\ other.restitution = One

\* C4: for two equal-mass, non-fixed circles with restitution 1 that move
\* head-on (the relative velocity lies on the line of centres), the magnitude
\* of the relative velocity is the same before and after resolve_collision.
C4_ElasticHeadOn ==
    (/\ last.op = "resolve_collision"
     /\ ElasticEqualPair(last.pre[1], last.pre[2])
     /\ HeadOn(last.pre[1], last.pre[2])) =>
        RelativeSpeed2(bodies[1], bodies[2])
          = RelativeSpeed2(last.pre[1], last.pre[2])

\* C4's case: an overlapping equal-mass elastic pair closing head-on has been
\* resolved.
C4_Witness ==
    /\ last.op = "resolve_collision"
    /\ ElasticEqualPair(last.pre[1], last.pre[2])
    /\ HeadOn(last.pre[1], last.pre[2])
    /\ Approaching(last.pre[1], last.pre[2])
    /\ check_collision(last.pre[1], last.pre[2])

(***************************************************************************)
(* SpecCheck: check_collision on two bodies, for every combination of      *)
(* shape kind, size and relative position below.                           *)
(***************************************************************************)
CheckOffsets == {<<R(x), R(y)>> : x \in -3..5, y \in -3..5}
CheckSelfForms ==
    {[type |-> "circle", options |-> [radius |-> R(1)]],
     [type |-> "circle", options |-> [radius |-> R(2)]],
     [type |-> "rect", options |-> [width |-> R(2), height |-> R(2)]],
     [type |-> "ellipse", options |-> <<>>]}
CheckOtherForms ==
    {[type |-> "circle", options |-> [radius |-> R(1)]],
     [type |-> "circle", options |-> [radius |-> R(2)]],
     [type |-> "circle", options |-> [radius |-> R(3)]],
     [type |-> "rect", options |-> [width |-> R(4), height |-> R(2)]],
     [type |-> "ellipse", options |-> <<>>]}

CheckPairs ==
    {Scene(<<Make("a", [type |-> fs.type, position |-> V(5, 5),
                        options |-> fs.options], FALSE),
             Make("b", [type |-> fo.type,
                        position |-> <<RAdd(R(5), off[1]), RAdd(R(5), off[2])>>,
                        options |-> fo.options], FALSE)>>) :
        fs \in CheckSelfForms, fo \in CheckOtherForms, off \in CheckOffsets}

InitCheck == \E bs \in CheckPairs : EngineInit(WorldGravity, WorldBounds, bs)

NextCheck == \E i \in 1..2, j \in 1..2 : CheckCollision(i, j)

SpecCheck == InitCheck /\ [][NextCheck]_vars

\* The squared distance between the positions of two bodies.
Distance2(self, other) ==
    Dot(VSub(self.position, other.position), VSub(self.position, other.position))

BothCircles(self, other) ==
    self.shape_type = "circle" /\ other.shape_type = "circle"

\* C5: for two circles check_collision is true if and only if the distance
\* between the centres is strictly less than the sum of the radii; at exact
\* tangency it is false.
C5_CircleOverlapLaw ==
    (/\ last.op = "check_collision"
     /\ BothCircles(bodies[last.self], bodies[last.other])) =>
        LET self == bodies[last.self]
            other == bodies[last.other]
            sum == RAdd(self.radius, other.radius)
        IN  last.ret <=> RLt(Distance2(self, other), RMul(sum, sum))

\* C5's case: two distinct circles exactly tangent, off the axes, were tested
\* and reported not colliding.
C5_Witness ==
    /\ last.op = "check_collision"
    /\ last.self # last.other
    /\ BothCircles(bodies[last.self], bodies[last.other])
    /\ LET self == bodies[last.self]
           other == bodies[last.other]
           sum == RAdd(self.radius, other.radius)
       IN  /\ Distance2(self, other) = RMul(sum, sum)
           /\ self.position[1] # other.position[1]
           /\ self.position[2] # other.position[2]
    /\ ~last.ret

(***************************************************************************)
(* SpecStatic: force fields and springs on bodies at rational distances    *)
(* from each other and from the centre of the field, so that the forces    *)
(* are exact.  No update runs: the bodies stay where they were created.    *)
(***************************************************************************)
StaticBounds == <<R(0), R(0), R(800), R(600)>>

StaticBody(position, velocity, mass) ==
    [type |-> "circle", position |-> position,
     options |-> [radius |-> R(20), velocity |-> velocity, mass |-> mass]]

StaticScenes ==
    {Scene(<<Make("a", StaticBody(pa, V(0, 0), R(1)), FALSE),
             Make("b", StaticBody(pb, V(-3, 0), R(2)), FALSE),
             Make("c", StaticBody(pc, V(0, 0), R(1)), fc)>>) :
        pa \in {V(100, 100), V(0, 0)},
        pb \in {V(130, 140), V(200, 0), V(100, 150)},
        pc \in {V(100, 200), V(160, 180)},
        fc \in BOOLEAN}

StaticExplosions ==
    {[position |-> V(100, 100), force |-> R(1000), radius |-> r] :
        r \in {R(100), R(200)}}
StaticWinds == {[direction |-> V(1, 0), strength |-> <<1, 2>>]}
StaticAttractions ==
    {[position |-> V(100, 100), strength |-> R(5000), min_distance |-> R(10)]}
StaticSprings ==
    {[stiffness |-> <<1, 2>>, rest_length |-> R(100), damping |-> Zero],
     [stiffness |-> <<1, 2>>, rest_length |-> R(250), damping |-> Zero],
     [stiffness |-> <<1, 2>>, rest_length |-> R(100), damping |-> <<1, 10>>]}

InitStatic == \E bs \in StaticScenes : EngineInit(V(0, 98), StaticBounds, bs)

NextStatic ==
    \/ \E x \in StaticExplosions : Explosion(x.position, x.force, x.radius)
    \/ \E w \in StaticWinds : Wind(w.direction, w.strength)
    \/ \E x \in StaticAttractions :
          Attraction(x.position, x.strength, x.min_distance)
    \/ \E a \in {"a"}, b \in {"b", "c"} : \E k \in StaticSprings :
          CreateSpring(a, b, k.stiffness, k.rest_length, k.damping)
    \/ \E sp \in springs : InvokeSpring(sp)

SpecStatic == InitStatic /\ [][NextStatic]_vars

\* The force the last call added to body i.
AddedForce(i) == VSub(bodies[i].forces, last.pre[i].forces)

\* v scaled by the number k.
VScale(v, k) == <<RMul(v[1], k), RMul(v[2], k)>>

\* What C6 says of body i after apply_explosion_force(centre, M, radius):
\* nothing is added to a fixed body or at distance d >= radius; M straight up
\* at d = 0; otherwise the force points away from the centre and, when d is
\* rational, is M*(1 - d/radius) times the unit vector away from the centre
\* (stated as F*radius*d = M*(radius - d)*(p - centre)).
ExplosionLaw(i) ==
    LET b == last.pre[i]
        away == VSub(b.position, last.position)
        d2 == Dot(away, away)
        d == Sqrt(d2)
        F == AddedForce(i)
    IN  /\ SameMotion(bodies[i], b)
        /\ IF b.fixed \/ RGe(d2, RMul(last.radius, last.radius))
           THEN F = VZero
           ELSE IF d2 = Zero
           THEN F = <<Zero, RNeg(last.force)>>
           ELSE /\ RGt(Dot(F, away), Zero)
                /\ IsSquare(d2) =>
                      VScale(VScale(F, last.radius), d)
                        = VScale(away, RMul(last.force, RSub(last.radius, d)))

\* C6: apply_explosion_force adds to every non-fixed body at distance
\* d < R a force of magnitude M*(1 - d/R) directed away from the centre
\* ((0,-1) at d = 0) and nothing to the other bodies.
C6_ExplosionFalloff ==
    last.op = "apply_explosion_force" =>
        \A i \in 1..Len(bodies) : ExplosionLaw(i)

\* C6's case: one explosion reached a body at its centre with the full force
\* and a body at half the radius, off the axes, with exactly half of it.
C6_Witness ==
    /\ last.op = "apply_explosion_force"
    /\ \E i, j \in 1..Len(bodies) :
          /\ ~last.pre[i].fixed /\ ~last.pre[j].fixed
          /\ last.pre[i].position = last.position
          /\ AddedForce(i) = <<Zero, RNeg(last.force)>>
          /\ Distance2(last.pre[j], last.pre[i])
                = RMul(RDiv(last.radius, R(2)), RDiv(last.radius, R(2)))
          /\ last.pre[j].position[1] # last.position[1]
          /\ last.pre[j].position[2] # last.position[2]
          /\ Dot(AddedForce(j), AddedForce(j))
                = RMul(RDiv(last.force, R(2)), RDiv(last.force, R(2)))

\* The two bodies of the spring that was invoked last, before the call.
SpringA == last.pre[IndexOf(last.pre, last.spring.body_a_id)]
SpringB == last.pre[IndexOf(last.pre, last.spring.body_b_id)]

\* The spring of C10: no damping, both bodies registered and not fixed, at a
\* rational distance that is not zero.
UndampedSpringCase ==
    /\ last.op = "apply_spring_force"
    /\ last.spring.damping = Zero
    /\ Registered(last.pre, last.spring.body_a_id)
    /\ Registered(last.pre, last.spring.body_b_id)
    /\ ~SpringA.fixed /\ ~SpringB.fixed
    /\ Distance2(SpringA, SpringB) # Zero
    /\ IsSquare(Distance2(SpringA, SpringB))

\* The general part of C10: the forces added to the two bodies are opposite,
\* and the one on body a is stiffness*(d - rest_length) times the unit vector
\* from a to b (stated as F*d = stiffness*(d - rest_length)*(pb - pa)): it
\* pulls a toward b when d > rest_length and pushes it away when d < it.
HookeLaw ==
    LET ia == IndexOf(last.pre, last.spring.body_a_id)
        ib == IndexOf(last.pre, last.spring.body_b_id)
        toB == VSub(SpringB.position, SpringA.position)
        d == Sqrt(Distance2(SpringA, SpringB))
    IN  /\ AddedForce(ib) = <<RNeg(AddedForce(ia)[1]), RNeg(AddedForce(ia)[2])>>
        /\ VScale(AddedForce(ia), d)
             = VScale(toB, RMul(last.spring.stiffness,
                                RSub(d, last.spring.rest_length)))
        /\ \A i \in 1..Len(bodies) :
              /\ SameMotion(bodies[i], last.pre[i])
              /\ i \notin {ia, ib} => AddedForce(i) = VZero

\* The example of C10: bodies at (0,0) and (200,0), stiffness 0.5, rest
\* length 100.
SpringExample ==
    /\ UndampedSpringCase
    /\ SpringA.position = V(0, 0) /\ SpringB.position = V(200, 0)
    /\ last.spring.stiffness = <<1, 2>> /\ last.spring.rest_length = R(100)

\* C10 as stated: the general law, and in the example a force of 25 on each
\* body toward the other along x.
C10_Original ==
    UndampedSpringCase =>
        /\ HookeLaw
        /\ SpringExample =>
              /\ AddedForce(IndexOf(last.pre, last.spring.body_a_id)) = V(25, 0)
              /\ AddedForce(IndexOf(last.pre, last.spring.body_b_id)) = V(-25, 0)

\* C10 amended: the general law, and in the example a force of 50 on each
\* body toward the other along x.
C10_SpringForce ==
    UndampedSpringCase =>
        /\ HookeLaw
        /\ SpringExample =>
              /\ AddedForce(IndexOf(last.pre, last.spring.body_a_id)) = V(50, 0)
              /\ AddedForce(IndexOf(last.pre, last.spring.body_b_id)) = V(-50, 0)

\* C10's case: the spring of the example was invoked and pulled each body
\* toward the other with a force of 50.
C10_Witness ==
    /\ SpringExample
    /\ AddedForce(IndexOf(last.pre, last.spring.body_a_id)) = V(50, 0)
    /\ AddedForce(IndexOf(last.pre, last.spring.body_b_id)) = V(-50, 0)

(***************************************************************************)
(* SpecSingle: one body alone in the 800 x 600 world of                    *)
(* initialize_physics_animation under gravity (0, 98), stepped by update.  *)
(***************************************************************************)
SingleForms ==
    {[type |-> "circle", options |-> [radius |-> R(20)]],
     [type |-> "rect", options |-> [width |-> R(40), height |-> R(40)]]}
SinglePositions == {V(100, 100), V(100, 575), V(775, 540), V(100, 25)}
SingleVelocities == {V(0, 0), V(0, 60), V(50, 20), V(0, -300), <<<<1, 200>>, Zero>>}
SingleMasses == {R(1), R(2)}
SingleRestitutions == {<<4, 5>>, <<1, 2>>}
SingleFrictions == {Zero, <<1, 10>>}
SingleDts == {<<1, 10>>, <<1, 2>>}

SingleScenes ==
    {Scene(<<Make("a", [type |-> f.type, position |-> p,
                        options |-> WithKeys(Options(m, v, e, fr), f.options)],
                  FALSE)>>) :
        f \in SingleForms, p \in SinglePositions, v \in SingleVelocities,
        m \in SingleMasses, e \in SingleRestitutions, fr \in SingleFrictions}

InitSingle == \E bs \in SingleScenes : EngineInit(V(0, 98), StaticBounds, bs)

NextSingle == \E dt \in SingleDts : Update(dt)

SpecSingle == InitSingle /\ [][NextSingle]_vars

\* The only body before the last update, and as update's integration step
\* leaves it (gravity applied, PhysicsBody.update run, no boundary handled).
Alone == last.pre[1]
Integrated == body_update(apply_gravity(last.pre, gravity)[1], last.step)

\* C7: a non-fixed circle of radius r that moves toward max_y and whose
\* integration step takes it past max_y - r ends the update at
\* position.y = max_y - r with velocity.y equal to the post-integration
\* value, sign flipped and multiplied by the restitution.
C7_BoundaryBounce ==
    (/\ last.op = "update"
     /\ Len(last.pre) = 1
     /\ Alone.shape_type = "circle" /\ ~Alone.fixed
     /\ RLe(RAdd(Alone.position[2], Alone.radius), bounds[4])
     /\ RGt(Integrated.velocity[2], Zero)
     /\ RGt(RAdd(Integrated.position[2], Alone.radius), bounds[4])) =>
        /\ bodies[1].position[2] = RSub(bounds[4], Alone.radius)
        /\ bodies[1].velocity[2]
             = RMul(RNeg(Integrated.velocity[2]), Alone.restitution)

\* C7's case: a circle that was inside the world crossed the bottom plane in
\* the step and came back with a smaller upward velocity.
C7_Witness ==
    /\ last.op = "update"
    /\ Len(last.pre) = 1
    /\ Alone.shape_type = "circle" /\ ~Alone.fixed
    /\ RLe(RAdd(Alone.position[2], Alone.radius), bounds[4])
    /\ RGt(Integrated.velocity[2], Zero)
    /\ RGt(RAdd(Integrated.position[2], Alone.radius), bounds[4])
    /\ bodies[1].position[2] = RSub(bounds[4], Alone.radius)
    /\ RLt(bodies[1].velocity[2], Zero)
    /\ RLt(RAbs(bodies[1].velocity[2]), Integrated.velocity[2])

\* The extent of b lies strictly inside the bounds bnds.
StrictlyInside(b, bnds) ==
    IF b.shape_type = "circle"
    THEN /\ RLt(RAdd(bnds[1], b.radius), b.position[1])
         /\ RLt(b.position[1], RSub(bnds[3], b.radius))
         /\ RLt(RAdd(bnds[2], b.radius), b.position[2])
         /\ RLt(b.position[2], RSub(bnds[4], b.radius))
    ELSE /\ RLt(bnds[1], b.position[1])
         /\ RLt(RAdd(b.position[1], b.width), bnds[3])
         /\ RLt(bnds[2], b.position[2])
         /\ RLt(RAdd(b.position[2], b.height), bnds[4])

\* The single body of C9 and the step it made: not fixed, friction 0, no
\* force pending, no boundary reached.
FreeFallCase ==
    /\ last.op = "update"
    /\ Len(last.pre) = 1
    /\ ~Alone.fixed
    /\ Alone.friction = Zero
    /\ Alone.forces = VZero
    /\ StrictlyInside(Alone, bounds)
    /\ StrictlyInside(bodies[1], bounds)

\* C9: for a single non-fixed body with friction 0 that reaches no boundary,
\* one update(dt) gives velocity = v0 + gravity*dt and position =
\* p0 + (v0 + gravity*dt)*dt, whatever the mass, on every axis where that
\* velocity is zero or larger than 0.01 in magnitude; inCollision stays false.
C9_SemiImplicitStep ==
    FreeFallCase =>
        /\ \A k \in 1..2 :
              LET v == RAdd(Alone.velocity[k], RMul(gravity[k], last.step))
              IN  (v = Zero \/ RGt(RAbs(v), VelocityEpsilon)) =>
                     /\ bodies[1].velocity[k] = v
                     /\ bodies[1].position[k]
                          = RAdd(Alone.position[k], RMul(v, last.step))
        /\ ~Alone.in_collision => ~bodies[1].in_collision

\* C9's case: the worked example, (100,100) at rest, gravity (0,98), dt 0.1,
\* gives velocity (0, 9.8) and position (100, 100.98); and with mass 2.
C9_Witness ==
    /\ FreeFallCase
    /\ gravity = V(0, 98)
    /\ last.step = <<1, 10>>
    /\ Alone.position = V(100, 100) /\ Alone.velocity = V(0, 0)
    /\ Alone.mass = R(2)
    /\ bodies[1].velocity = <<Zero, <<49, 5>>>>
    /\ bodies[1].position = <<R(100), <<5049, 50>>>>
    /\ ~bodies[1].in_collision

(***************************************************************************)
(* SpecRegistry: create_body_from_element and remove_body on an engine     *)
(* that starts empty.                                                      *)
(***************************************************************************)
RegistryPresets(id) ==
    IF id = "a" THEN {Ball} ELSE IF id = "b" THEN {Riser, Drifter} ELSE {Floor}

InitRegistry == EngineInit(WorldGravity, WorldBounds, <<>>)

NextRegistry ==
    \/ \E id \in Ids : \E p \in RegistryPresets(id) : CreateBody(id, p)
    \/ \E id \in Ids : RemoveBody(id)

SpecRegistry == InitRegistry /\ [][NextRegistry]_vars

\* C8: the registry holds exactly the ids created and not removed since, once
\* each; remove_body of an id that is not registered changes neither the
\* registry nor any body, remove_body of a registered id leaves the other
\* bodies as they were, and when every created id was removed the registry
\* is empty.
C8_RegistryRoundTrip ==
    /\ IdsOf(bodies) = live
    /\ Cardinality(IdsOf(bodies)) = Len(bodies)
    /\ live = {} => Len(bodies) = 0
    /\ last.op = "remove_body" =>
          /\ ~Registered(last.pre, last.id) => bodies = last.pre
          /\ \A i \in 1..Len(last.pre) :
                last.pre[i].element_id # last.id =>
                   /\ Registered(bodies, last.pre[i].element_id)
                   /\ bodies[IndexOf(bodies, last.pre[i].element_id)] = last.pre[i]

\* C8's case: three bodies with distinct ids were created, three removals
\* followed, and the registry is empty.
C8_Witness ==
    /\ used.create = 3 /\ used.made = Ids
    /\ used.remove = 3
    /\ last.op = "remove_body"
    /\ Len(last.pre) = 1
    /\ bodies = <<>>

(***************************************************************************)
(* SpecSpring: springs created between ids that are registered or not,     *)
(* bodies removed while a spring closure is held, and the closure invoked. *)
(***************************************************************************)
SpringScenes ==
    {Scene(<<Make("a", StaticBody(V(0, 0), V(0, 0), R(1)), FALSE)>>),
     Scene(<<Make("a", StaticBody(V(0, 0), V(0, 0), R(1)), FALSE),
             Make("b", StaticBody(V(200, 0), V(-3, 0), R(2)), FALSE)>>),
     Scene(<<Make("a", StaticBody(V(100, 100), V(0, 0), R(1)), FALSE),
             Make("b", StaticBody(V(130, 140), V(-3, 0), R(2)), FALSE),
             Make("c", StaticBody(V(100, 200), V(0, 0), R(1)), TRUE)>>)}

InitSpring == \E bs \in SpringScenes : EngineInit(V(0, 98), StaticBounds, bs)

NextSpring ==
    \/ \E a \in {"a", "b"}, b \in {"b", "c"} : \E k \in StaticSprings :
          CreateSpring(a, b, k.stiffness, k.rest_length, k.damping)
    \/ \E id \in Ids : RemoveBody(id)
    \/ \E sp \in springs : InvokeSpring(sp)

SpecSpring == InitSpring /\ [][NextSpring]_vars

\* The closure invoked last was invoked while one of its two bodies was
\* missing from the registry.
SpringBodyMissing ==
    /\ last.op = "apply_spring_force"
    /\ \/ ~Registered(last.pre, last.spring.body_a_id)
       \/ ~Registered(last.pre, last.spring.body_b_id)

\* Invoking a spring closure while one of its bodies is missing changes no
\* body.
MissingBodyNoOp == SpringBodyMissing => bodies = last.pre

\* C11: create_spring always returns an invocable operator, also for ids
\* that are not registered; and invoking the operator while either body is
\* missing from the registry changes no body's forces, position or velocity.
C11_SpringAlwaysInvocable ==
    /\ last.op = "create_spring" => last.ret # None
    /\ MissingBodyNoOp

(***************************************************************************)
(* SpecAttract: apply_attraction_force toward points where a body may be,  *)
(* with a minimum distance that may be zero.                               *)
(***************************************************************************)
AttractPoints == {V(100, 100), V(0, 0), V(50, 50)}
AttractMinDistances == {R(0), R(10)}

InitAttract == \E bs \in StaticScenes : EngineInit(V(0, 98), StaticBounds, bs)

NextAttract ==
    \E p \in AttractPoints, m \in AttractMinDistances : Attraction(p, R(5000), m)

SpecAttract == InitAttract /\ [][NextAttract]_vars

\* C12: apply_attraction_force never raises, whatever min_distance >= 0 and
\* wherever the bodies are: a body at the attraction point is skipped.
C12_AttractionNeverRaises ==
    last.op = "apply_attraction_force" => ~last.raised

(***************************************************************************)
(* SpecClock: an engine that is started, stopped and stepped while the     *)
(* clock advances, with bodies created, removed and pushed in between.     *)
(***************************************************************************)
ClockScenes ==
    {Scene(<<Make("a", Ball, FALSE), Make("b", Riser, FALSE)>>)}

InitClock == \E bs \in ClockScenes : EngineInit(WorldGravity, WorldBounds, bs)

NextClock ==
    \/ Start(60)
    \/ Stop
    \/ now < 1 /\ Tick
    \/ Update(None)
    \/ used.create < 1 /\ CreateBody("c", Floor)
    \/ used.remove < 1 /\ RemoveBody("c")
    \/ \E w \in WindInputs : Wind(w.direction, w.strength)

SpecClock == InitClock /\ [][NextClock]_vars

\* The step is a call of start(), of stop(), of update().
StartStep == last.op # "start" /\ last'.op = "start"
StopStep == last.op # "stop" /\ last'.op = "stop"
UpdateStep == used'.update # used.update

\* What start() and stop() have no business with.
WorldUnchanged == UNCHANGED <<bodies, gravity, bounds, springs>>

RunningFlagStep ==
    /\ running' # running => \/ StartStep /\ running'
                             \/ StopStep /\ ~running'
    /\ StartStep => running'
    /\ StopStep => ~running'
    /\ StartStep /\ running => UNCHANGED <<running, last_time>> /\ WorldUnchanged
    /\ StopStep /\ ~running => UNCHANGED <<running, last_time>> /\ WorldUnchanged
    /\ UpdateStep =>
          bodies' = engine_update(bodies, last'.step, gravity, bounds)

\* C13: the engine is constructed stopped; running becomes true only through
\* start() and false only through stop(); start() on a running engine and
\* stop() on a stopped one change nothing; update() steps the bodies the same
\* way whatever the flag says, and no other operation changes the flag.
C13_RunningFlag ==
    /\ last.op = "init" => ~running
    /\ [][RunningFlagStep]_vars

\* start() has been called on a running engine that had been stepped by hand
\* while it ran.
C13_Witness ==
    /\ last.op = "start"
    /\ last.was_running
    /\ running
    /\ used.update > 0
    /\ used.started_at # None

StartStopFrame ==
    (StartStep \/ StopStep) =>
        UNCHANGED <<bodies, gravity, bounds, springs, last_time>>

\* C14 as stated: start() and stop() change nothing but the running flag;
\* bodies, gravity, bounds and the clock last_time are as before the call.
C14_Original == [][StartStopFrame]_vars

StartStopEffect ==
    /\ (StartStep \/ StopStep) => WorldUnchanged
    /\ StopStep => UNCHANGED last_time
    /\ StartStep /\ running => UNCHANGED last_time
    /\ StartStep /\ ~running => last_time' = CurrentTime

\* C14: start() and stop() leave the bodies, the gravity and the bounds as
\* they were; stop() and start() on a running engine leave last_time too,
\* while start() on a stopped engine sets last_time to the current time.
C14_StartResetsClock == [][StartStopEffect]_vars

\* A stopped engine that had been stepped earlier has been started at a
\* later time: its clock moved from the time of that update to the present.
C14_Witness ==
    /\ last.op = "start"
    /\ ~last.was_running
    /\ last.was_last_time # None
    /\ last.was_last_time # last_time
    /\ last_time = CurrentTime
    /\ running

(***************************************************************************)
(* SpecStep: one ball stepped with and without an explicit dt while the    *)
(* clock advances and the engine is started and stopped.                   *)
(***************************************************************************)
StepDts == {None, <<1, 2>>}

InitStep ==
    EngineInit(WorldGravity, WorldBounds, Scene(<<Make("a", Ball, FALSE)>>))

NextStep ==
    \/ Start(60)
    \/ Stop
    \/ Tick
    \/ \E dt \in StepDts : Update(dt)

SpecStep == InitStep /\ [][NextStep]_vars

DefaultStep == <<1, 60>>
LongestStep == <<1, 30>>

\* The step measured from the time `since`.
MeasuredFrom(since) == RMin(RSub(CurrentTime, since), LongestStep)

StepSincePreviousUpdate ==
    UpdateStep =>
        last'.step = IF last'.dt # None THEN last'.dt
                     ELSE IF used.update = 0 THEN DefaultStep
                     ELSE MeasuredFrom(used.updated_at)

\* C15 as stated: with dt omitted the first update() steps by 1/60 whether or
\* not start() was called before it, and every later one by the time since
\* the previous update(), at most 1/30; a supplied dt is used unchanged.
C15_Original == [][StepSincePreviousUpdate]_vars

\* The later of two times, either of which may be None.
Later(s, t) == IF s = None THEN t ELSE IF t = None THEN s ELSE RMax(s, t)

StepSinceClockSet ==
    UpdateStep =>
        last'.step = IF last'.dt # None THEN last'.dt
                     ELSE IF used.updated_at = None /\ used.started_at = None
                          THEN DefaultStep
                     ELSE MeasuredFrom(Later(used.updated_at, used.started_at))

\* C15: a supplied dt is used unchanged; with dt omitted the step is 1/60
\* when neither update() nor start() on a stopped engine has been called
\* before, and otherwise the time since the later of the previous update()
\* and the last start() of a stopped engine, at most 1/30.
C15_StepSinceClockSet == [][StepSinceClockSet]_vars

\* update() without dt has run more than 1/30 s after an earlier update() and
\* a later start(), and stepped by the cap.
C15_Witness ==
    /\ last.op = "update"
    /\ last.dt = None
    /\ used.update > 1
    /\ used.started_at # None
    /\ last.was_last_time = used.started_at
    /\ RGt(RSub(last.at, last.was_last_time), LongestStep)
    /\ last.step = LongestStep

(***************************************************************************)
(* The calls of one update, under Spec.                                    *)
(***************************************************************************)
\* The phase of update a call belongs to.
Phase(e) ==
    CASE e.call = "apply_gravity" -> 1
      [] e.call = "integrate" -> 2
      [] e.call = "check_collision" -> 3
      [] e.call = "render" -> 4

\* The places in the last update's calls of the calls of one kind.
CallsOf(kind) == {k \in 1..Len(last.calls) : last.calls[k].call = kind}

\* How many calls of one kind the last update made for the body id.
CallsFor(kind, id) == Cardinality({k \in CallsOf(kind) : last.calls[k].id = id})

\* How many times the last update tested the pair of x and y.
TestsOf(x, y) ==
    Cardinality({k \in CallsOf("check_collision") :
                    {last.calls[k].id, last.calls[k].other} = {x, y}})

PhasesInOrder ==
    \A j, k \in 1..Len(last.calls) :
        j < k => Phase(last.calls[j]) <= Phase(last.calls[k])

GravityOncePerMovable ==
    \A i \in 1..Len(last.pre) :
        CallsFor("apply_gravity", last.pre[i].element_id)
            = IF last.pre[i].fixed THEN 0 ELSE 1

IntegratedOnce ==
    \A i \in 1..Len(last.pre) : CallsFor("integrate", last.pre[i].element_id) = 1

EachPairTestedOnce ==
    /\ \A x, y \in IdsOf(last.pre) : x # y => TestsOf(x, y) = 1
    /\ \A k \in CallsOf("check_collision") :
          /\ last.calls[k].id # last.calls[k].other
          /\ {last.calls[k].id, last.calls[k].other} \subseteq IdsOf(last.pre)

RenderedOnceWithFinalState ==
    /\ IdsOf(bodies) = IdsOf(last.pre)
    /\ \A k \in CallsOf("render") : last.calls[k].id \in IdsOf(bodies)
    /\ \A i \in 1..Len(bodies) :
          /\ CallsFor("render", bodies[i].element_id) = 1
          /\ \A k \in CallsOf("render") :
                last.calls[k].id = bodies[i].element_id =>
                    /\ last.calls[k].position = bodies[i].position
                    /\ last.calls[k].in_collision = bodies[i].in_collision

\* C16: in one update gravity is applied to every non-fixed body before any
\* body is integrated, every body is integrated and clamped before any pair
\* is tested, every unordered pair of registered bodies is tested exactly
\* once, and after all the pairs each registered body is rendered exactly
\* once, with the position and in_collision the step ends with.
C16_PhaseOrder ==
    last.op = "update" =>
        /\ PhasesInOrder
        /\ GravityOncePerMovable
        /\ IntegratedOnce
        /\ EachPairTestedOnce
        /\ RenderedOnceWithFinalState

\* An update of three bodies, one of them fixed, in which one pair collided
\* and another did not.
C16_Witness ==
    /\ last.op = "update"
    /\ Len(bodies) = 3
    /\ \E i \in 1..3 : last.pre[i].fixed
    /\ \E i \in 1..3 : ~last.pre[i].fixed
    /\ \E k \in CallsOf("check_collision") : last.calls[k].hit
    /\ \E k \in CallsOf("check_collision") : ~last.calls[k].hit
    /\ Cardinality(CallsOf("check_collision")) = 3
    /\ C16_PhaseOrder

(***************************************************************************)
(* The same bodies registered in another order, under Spec.                *)
(***************************************************************************)
\* The registry bs would be had its bodies been inserted in the order f.
Reordered(bs, f) == [i \in 1..Len(bs) |-> bs[f[i]]]

Orders(bs) == Permutations(1..Len(bs))

\* Every id has the same position, velocity and in_collision in xs and ys.
SameOutcome(xs, ys) ==
    \A i \in 1..Len(xs), j \in 1..Len(ys) :
        xs[i].element_id = ys[j].element_id =>
            /\ xs[i].position = ys[j].position
            /\ xs[i].velocity = ys[j].velocity
            /\ xs[i].in_collision = ys[j].in_collision

\* The last update gave what it would have given in every insertion order.
OrderIndependent ==
    \A f \in Orders(last.pre) :
        SameOutcome(bodies,
                    engine_update(Reordered(last.pre, f), last.step, gravity, bounds))

\* C17 as stated: update gives every id the same position, velocity and
\* in_collision whatever the order the bodies were inserted in.
C17_Original == last.op = "update" => OrderIndependent

\* The bodies of the last update as the collision loop found them.
Integrated17 == integrate_all(apply_gravity(last.pre, gravity), last.step, bounds)

\* No two of them are at distance zero, the case in which resolve_collision
\* falls back on the normal (0, 1).
DistinctCentres ==
    \A i, j \in 1..Len(last.pre) :
        i # j => ~RIsZero(distance_to(Integrated17[i], Integrated17[j]))

\* C17: with at most two registered bodies whose centres do not coincide
\* when the collision loop runs, update gives every id the same position,
\* velocity and in_collision whatever the order of insertion.
C17_TwoBodiesOrderIndependent ==
    (last.op = "update" /\ Len(last.pre) <= 2 /\ DistinctCentres)
        => OrderIndependent

\* Two bodies that collided in the last update and were pushed apart.
C17_Witness ==
    /\ last.op = "update"
    /\ Len(last.pre) = 2
    /\ DistinctCentres
    /\ \E k \in CallsOf("check_collision") : last.calls[k].hit
    /\ \A i \in 1..2 : bodies[i].in_collision
    /\ \E i \in 1..2 : bodies[i].position # Integrated17[i].position
    /\ OrderIndependent

\* C18: after every update the forces accumulator of every registered body
\* is zero, whatever apply_force, force-field, spring and set_fixed calls
\* came before it.
C18_ForcesClearedByUpdate ==
    last.op = "update" => \A i \in 1..Len(bodies) : bodies[i].forces = VZero

(***************************************************************************)
(* SpecCollide: overlapping bodies stepped by update while bodies are      *)
(* removed from the registry in between.                                   *)
(***************************************************************************)
CollideScenes ==
    {Scene(<<Make("a", Ball, FALSE), Make("b", Riser, FALSE)>>),
     Scene(<<Make("a", Ball, FALSE), Make("b", Riser, FALSE),
             Make("c", Drifter, FALSE)>>)}

InitCollide == \E bs \in CollideScenes : EngineInit(WorldGravity, WorldBounds, bs)

NextCollide ==
    \/ \E dt \in DtInputs : Update(dt)
    \/ \E id \in Ids : RemoveBody(id)

SpecCollide == InitCollide /\ [][NextCollide]_vars

\* The places in the last update's calls of the collision tests of the body.
TestsWith(id) ==
    {k \in CallsOf("check_collision") :
        id \in {last.calls[k].id, last.calls[k].other}}

\* The largest element of a non-empty set of numbers.
Latest(S) == CHOOSE k \in S : \A m \in S : m <= k

\* What the last collision test of the body returned, FALSE without one.
LastTestHit(id) ==
    IF TestsWith(id) = {} THEN FALSE ELSE last.calls[Latest(TestsWith(id))].hit

\* C19: after update a body's in_collision is true exactly when the last pair
\* tested in that update that contained the body was colliding, and false
\* when the body was in no pair during that update.
C19_InCollisionRecomputed ==
    last.op = "update" =>
        \A i \in 1..Len(bodies) :
            bodies[i].in_collision = LastTestHit(bodies[i].element_id)

(***************************************************************************)
(* resolve_collision with a fixed body, under SpecResolve.                 *)
(***************************************************************************)
\* resolve_collision(self, other) gets past its early returns.
ImpulseApplied(self, other) ==
    /\ ~(self.fixed /\ other.fixed)
    /\ ~moving_away(relative_velocity_normal(self, other,
                                             collision_normal(self, other)))

\* The component x of a unit vector scaled to twice the separation factor.
TwiceSeparation(x) == RMul(RMul(x, SeparationFactor), R(2))

\* The step from position p to position q is not zero and goes, on each
\* axis, the way the vector w goes or not at all.
StepsAlong(p, q, w) ==
    /\ p # q
    /\ \A axis \in 1..2 :
          \/ q[axis] = p[axis]
          \/ RSign(RSub(q[axis], p[axis])) = RSign(w[axis])

\* The movable body m of the last call went from the fixed body f by twice
\* the separation factor along the collision normal, and nothing else moved.
OnlyMovableMoved(m, f) ==
    LET n == collision_normal(last.pre[1], last.pre[2])
        away == IF m = 1 THEN <<RNeg(n[1]), RNeg(n[2])>> ELSE n
        gap == VSub(last.pre[m].position, last.pre[f].position)
    IN  /\ SameMotion(bodies[f], last.pre[f])
        /\ bodies[m].position
              = <<RAdd(last.pre[m].position[1], TwiceSeparation(away[1])),
                  RAdd(last.pre[m].position[2], TwiceSeparation(away[2]))>>
        /\ gap # VZero =>
              StepsAlong(last.pre[m].position, bodies[m].position, gap)

\* C20: when exactly one of the two bodies is fixed and the impulse is
\* applied, resolve_collision leaves the fixed body's position and velocity
\* as they were and moves only the movable body, away from the fixed one
\* along the normal by twice the separation factor; when both are fixed
\* nothing changes.
C20_FixedBodyStays ==
    last.op = "resolve_collision" =>
        /\ (last.pre[1].fixed /\ last.pre[2].fixed) => bodies = last.pre
        /\ \A m, f \in 1..2 :
              (/\ m # f
               /\ last.pre[f].fixed /\ ~last.pre[m].fixed
               /\ ImpulseApplied(last.pre[1], last.pre[2])) => OnlyMovableMoved(m, f)

\* resolve_collision has pushed a movable body off a fixed one, changing its
\* velocity too.
C20_Witness ==
    /\ last.op = "resolve_collision"
    /\ last.pre[2].fixed /\ ~last.pre[1].fixed
    /\ ImpulseApplied(last.pre[1], last.pre[2])
    /\ last.pre[1].position # last.pre[2].position
    /\ bodies[1].velocity # last.pre[1].velocity
    /\ bodies[1].position # last.pre[1].position
    /\ OnlyMovableMoved(1, 2)

(***************************************************************************)
(* check_collision in both orders, under SpecCheck.                        *)
(***************************************************************************)
\* c brought into the interval [low, high].
Clamped(c, low, high) == IF RLt(c, low) THEN low ELSE IF RGt(c, high) THEN high ELSE c

\* The point of the box of the rectangle closest to the centre of the circle.
ClosestPoint(circle, rectangle) ==
    <<Clamped(circle.position[1], rectangle.position[1],
              RAdd(rectangle.position[1], rectangle.width)),
      Clamped(circle.position[2], rectangle.position[2],
              RAdd(rectangle.position[2], rectangle.height))>>

\* The circle reaches into the box of the rectangle.
CircleReaches(circle, rectangle) ==
    LET gap == VSub(circle.position, ClosestPoint(circle, rectangle))
    IN  RLt(Dot(gap, gap), RMul(circle.radius, circle.radius))

CircleAndRectangle(x, y) == x.shape_type = "circle" /\ y.shape_type = "rectangle"

\* C21: check_collision gives the same answer in both orders, and for a
\* circle and a rectangle in either order it is true exactly when the squared
\* distance from the circle's centre to the closest point of the rectangle's
\* box is strictly less than the radius squared.
C21_CheckSymmetric ==
    last.op = "check_collision" =>
        LET self == bodies[last.self]
            other == bodies[last.other]
        IN  /\ last.ret = check_collision(other, self)
            /\ CircleAndRectangle(self, other) =>
                  (last.ret <=> CircleReaches(self, other))
            /\ CircleAndRectangle(other, self) =>
                  (last.ret <=> CircleReaches(other, self))

\* A rectangle was tested against a circle whose centre lies off the box, at
\* a corner, and that reaches into it.
C21_Witness ==
    /\ last.op = "check_collision"
    /\ CircleAndRectangle(bodies[last.other], bodies[last.self])
    /\ ClosestPoint(bodies[last.other], bodies[last.self])[1]
          # bodies[last.other].position[1]
    /\ ClosestPoint(bodies[last.other], bodies[last.self])[2]
          # bodies[last.other].position[2]
    /\ last.ret
    /\ check_collision(bodies[last.other], bodies[last.self])

(***************************************************************************)
(* SpecShapes: bodies of supported and unsupported element types created   *)
(* in an empty engine and stepped by update.                               *)
(***************************************************************************)
ShapePresets == {Ball, Blob, Floor}

NextShapes ==
    \/ \E id \in {"a", "b"} : \E p \in ShapePresets : CreateBody(id, p)
    \/ \E dt \in DtInputs : Update(dt)

SpecShapes == InitRegistry /\ [][NextShapes]_vars

\* The shape kinds check_collision has a test for.
ShapeKinds == {"circle", "rectangle"}

\* The last update found the body id in a colliding pair.
HitIn(id) ==
    \E k \in CallsOf("check_collision") :
        /\ last.calls[k].hit
        /\ id \in {last.calls[k].id, last.calls[k].other}

\* C22: a body created with an element type other than circle and rect has
\* a shape kind that is neither circle nor rectangle, and update never finds
\* it colliding and never marks it in_collision.
C22_UnshapedNeverCollides ==
    \A i \in 1..Len(bodies) :
        bodies[i].element_id \in used.unshaped =>
            /\ bodies[i].shape_type \notin ShapeKinds
            /\ last.op = "update" =>
                  ~bodies[i].in_collision /\ ~HitIn(bodies[i].element_id)

(***************************************************************************)
(* The force apply_attraction_force adds, under SpecAttract.               *)
(***************************************************************************)
\* What C23 says of body i after apply_attraction_force(point, S, m): its
\* position and velocity are as before; nothing is added to a fixed body or
\* at distance d < m; at d > m the force points toward the point and, when d
\* is rational, is S*mass/d^2 times the unit vector toward the point (stated
\* as F*d^2*d = S*mass*(point - p)).
AttractionLaw(i) ==
    LET b == last.pre[i]
        toward == VSub(last.attractor_position, b.position)
        d2 == Dot(toward, toward)
        d == Sqrt(d2)
        m2 == RMul(last.min_distance, last.min_distance)
        F == AddedForce(i)
    IN  /\ SameMotion(bodies[i], b)
        /\ (b.fixed \/ RLt(d2, m2)) => F = VZero
        /\ (~b.fixed /\ RGt(d2, m2)) =>
              /\ F # VZero
              /\ \A axis \in 1..2 :
                    RIsZero(F[axis]) \/ RSign(F[axis]) = RSign(toward[axis])
              /\ IsSquare(d2) =>
                    VScale(VScale(F, d2), d)
                      = VScale(toward, RMul(last.strength, b.mass))

\* C23: apply_attraction_force adds to every non-fixed body at distance
\* d > min_distance from the point a force of magnitude strength*mass/d^2
\* directed toward the point, adds nothing to fixed bodies and to bodies at
\* d < min_distance, and changes no position and no velocity.
C23_AttractionLaw ==
    last.op = "apply_attraction_force" =>
        \A i \in 1..Len(bodies) : AttractionLaw(i)

(***************************************************************************)
(* SpecBody: PhysicsBody.update called directly on one body, fixed or      *)
(* not, with and without a force applied before it.                        *)
(***************************************************************************)
\* engine.bodies[id].update(dt)
BodyUpdate(id, dt) ==
    /\ used.update < MaxUpdates
    /\ Registered(bodies, id)
    /\ bodies' = [bodies EXCEPT ![IndexOf(bodies, id)] = body_update(@, dt)]
    /\ last' = [op |-> "body_update", pre |-> bodies, id |-> id, dt |-> dt]
    /\ used' = [used EXCEPT !.update = @ + 1]
    /\ UNCHANGED <<gravity, bounds, running, last_time, now, springs, live>>

BodyVelocities ==
    {V(0, 0), V(50, 20), V(-3, 0), <<<<1, 200>>, <<-1, 200>>>>,
     <<<<1, 100>>, <<-1, 100>>>>, <<<<1, 2>>, <<-1, 2>>>>, <<<<-29, 100>>, R(5)>>}
BodyMasses == {R(1), R(2)}
BodyFrictions == {Zero, <<1, 10>>, <<1, 2>>}
BodyDts == {<<1, 10>>, <<1, 2>>}

BodyScenes ==
    {Scene(<<Make("a", [type |-> "circle", position |-> V(100, 100),
                        options |-> WithKeys(Options(m, v, <<4, 5>>, fr),
                                             [radius |-> R(20)])],
                  fixed)>>) :
        v \in BodyVelocities, m \in BodyMasses, fr \in BodyFrictions,
        fixed \in BOOLEAN}

InitBody == \E bs \in BodyScenes : EngineInit(V(0, 98), StaticBounds, bs)

NextBody ==
    \/ \E dt \in BodyDts : BodyUpdate("a", dt)
    \/ \E force \in Forces : ApplyForce("a", force)

SpecBody == InitBody /\ [][NextBody]_vars

\* The only body before the last direct update and after it.
Before == last.pre[1]
After == bodies[1]

\* The velocity component on one axis once the pending force has acted.
Pushed(axis) ==
    RAdd(Before.velocity[axis],
         RMul(RDiv(Before.forces[axis], Before.mass), last.dt))

\* What friction takes from a velocity component in the step.
FrictionLoss == RMul(RMul(Before.friction, FrictionG), last.dt)

\* C24's law on one axis.
AxisLaw(axis) ==
    /\ After.velocity[axis]
          = IF RGt(RAbs(Pushed(axis)), VelocityEpsilon)
            THEN IF RGt(Pushed(axis), Zero)
                 THEN RSub(Pushed(axis), FrictionLoss)
                 ELSE RAdd(Pushed(axis), FrictionLoss)
            ELSE Zero
    /\ After.position[axis]
          = RAdd(Before.position[axis], RMul(After.velocity[axis], last.dt))

\* C24: PhysicsBody.update on a non-fixed body adds (forces/mass)*dt to the
\* velocity, then on each axis changes a component with |v| > 0.01 by
\* friction*9.8*dt against its sign and sets a component with |v| <= 0.01 to
\* 0, advances the position by the resulting velocity times dt and resets
\* the forces; on a fixed body it changes nothing.
C24_UpdatePerAxis ==
    last.op = "body_update" =>
        IF Before.fixed THEN After = Before
        ELSE /\ AxisLaw(1) /\ AxisLaw(2)
             /\ After.forces = VZero

\* A pushed body whose one component was exactly 0.01 and stopped, while the
\* other was slowed by friction and carried the body along.
C24_Witness ==
    /\ last.op = "body_update"
    /\ ~Before.fixed
    /\ Before.forces # VZero
    /\ Before.friction # Zero
    /\ \E axis \in 1..2 :
          /\ RAbs(Pushed(axis)) = VelocityEpsilon
          /\ After.velocity[axis] = Zero
          /\ After.position[axis] = Before.position[axis]
    /\ \E axis \in 1..2 :
          /\ RGt(RAbs(Pushed(axis)), VelocityEpsilon)
          /\ RLt(RAbs(After.velocity[axis]), RAbs(Pushed(axis)))
          /\ After.position[axis] # Before.position[axis]

\* C28: after PhysicsBody.update with no accumulated force each velocity
\* component is zero or has the sign it had, with a magnitude that is not
\* larger: friction never reverses the motion on an axis.
C28_FrictionOnlySlows ==
    (last.op = "body_update" /\ ~Before.fixed /\ Before.forces = VZero) =>
        \A axis \in 1..2 :
            \/ After.velocity[axis] = Zero
            \/ /\ RSign(After.velocity[axis]) = RSign(Before.velocity[axis])
               /\ RLe(RAbs(After.velocity[axis]), RAbs(Before.velocity[axis]))

(***************************************************************************)
(* SpecDamping: a damped spring between two bodies that are at its rest    *)
(* length or off it, moving apart, closing or sliding past each other.     *)
(***************************************************************************)
DampingVelocities == {V(3, 0), V(-3, 0), V(3, 4), V(-3, -4), V(0, 2), V(0, 0)}
DampingPlaces == {V(200, 0), V(120, 160)}

DampingScenes ==
    {Scene(<<Make("a", StaticBody(V(0, 0), V(0, 0), R(1)), FALSE),
             Make("b", StaticBody(pb, vb, R(2)), FALSE)>>) :
        pb \in DampingPlaces, vb \in DampingVelocities}

DampedSprings ==
    {[stiffness |-> <<1, 2>>, rest_length |-> l, damping |-> c] :
        l \in {R(200), R(150)}, c \in {<<1, 10>>, <<1, 2>>}}

InitDamping == \E bs \in DampingScenes : EngineInit(V(0, 98), StaticBounds, bs)

NextDamping ==
    \/ \E k \in DampedSprings :
          CreateSpring("a", "b", k.stiffness, k.rest_length, k.damping)
    \/ \E sp \in springs : InvokeSpring(sp)

SpecDamping == InitDamping /\ [][NextDamping]_vars

\* The line from body a of the last spring to its body b, and the rate at
\* which b moves away from a along it (negative when they close).
SpringAxis == VSub(SpringB.position, SpringA.position)
PartingRate == Dot(VSub(SpringB.velocity, SpringA.velocity), SpringAxis)

\* The last spring was invoked on its two bodies at exactly its rest length.
AtRestLength ==
    /\ last.op = "apply_spring_force"
    /\ Registered(last.pre, last.spring.body_a_id)
    /\ Registered(last.pre, last.spring.body_b_id)
    /\ ~SpringA.fixed /\ ~SpringB.fixed
    /\ RGt(last.spring.damping, Zero)
    /\ Dot(SpringAxis, SpringAxis)
          = RMul(last.spring.rest_length, last.spring.rest_length)

\* The force the last spring added to its body a, along the line to b:
\* positive when it pulls a toward b.
PullOnA == Dot(AddedForce(IndexOf(last.pre, last.spring.body_a_id)), SpringAxis)
PullOnB ==
    RNeg(Dot(AddedForce(IndexOf(last.pre, last.spring.body_b_id)), SpringAxis))

\* C25: with damping > 0 and the bodies at rest length, the spring pulls the
\* two bodies toward each other when they are moving apart and pushes them
\* apart when they are closing.
C25_DampingOpposesMotion ==
    AtRestLength =>
        /\ RGt(PartingRate, Zero) => RGt(PullOnA, Zero) /\ RGt(PullOnB, Zero)
        /\ RLt(PartingRate, Zero) => RLt(PullOnA, Zero) /\ RLt(PullOnB, Zero)

(***************************************************************************)
(* Bodies and the world bounds at the end of an update, under Spec.        *)
(***************************************************************************)
\* The extent of b is no larger than the world bnds on either axis.
Fits(b, bnds) ==
    IF b.shape_type = "circle"
    THEN /\ RLe(RMul(R(2), b.radius), RSub(bnds[3], bnds[1]))
         /\ RLe(RMul(R(2), b.radius), RSub(bnds[4], bnds[2]))
    ELSE /\ RLe(b.width, RSub(bnds[3], bnds[1]))
         /\ RLe(b.height, RSub(bnds[4], bnds[2]))

\* The extent of b lies within the world bnds.
Within(b, bnds) ==
    IF b.shape_type = "circle"
    THEN /\ RLe(RAdd(bnds[1], b.radius), b.position[1])
         /\ RLe(b.position[1], RSub(bnds[3], b.radius))
         /\ RLe(RAdd(bnds[2], b.radius), b.position[2])
         /\ RLe(b.position[2], RSub(bnds[4], b.radius))
    ELSE /\ RLe(bnds[1], b.position[1])
         /\ RLe(b.position[1], RSub(bnds[3], b.width))
         /\ RLe(bnds[2], b.position[2])
         /\ RLe(b.position[2], RSub(bnds[4], b.height))

\* C26: at the end of every update every non-fixed body that fits inside the
\* world bounds lies within them, whatever collisions the update resolved.
C26_WithinBoundsAfterUpdate ==
    last.op = "update" =>
        \A i \in 1..Len(bodies) :
            (~bodies[i].fixed /\ Fits(bodies[i], bounds)) => Within(bodies[i], bounds)

(***************************************************************************)
(* The boundary handling of update, body by body (checked under Spec).     *)
(***************************************************************************)
\* Body i as update's integration leaves it, before and after the boundary
\* tests.
BeforeClamp(i) == body_update(apply_gravity(last.pre, gravity)[i], last.step)
AfterClamp(i) == handle_boundary(BeforeClamp(i), bounds)

\* How far the body reaches from its position toward the near and the far
\* plane of an axis.
ReachLow(b, axis) == IF b.shape_type = "circle" THEN b.radius ELSE Zero
ReachHigh(b, axis) ==
    IF b.shape_type = "circle" THEN b.radius
    ELSE IF axis = 1 THEN b.width ELSE b.height

\* The boundary tests moved the body on the axis and left it on the far
\* (right, bottom) or on the near (left, top) plane.
ClampedHigh(i, axis) ==
    /\ AfterClamp(i).position[axis] # BeforeClamp(i).position[axis]
    /\ RAdd(AfterClamp(i).position[axis], ReachHigh(AfterClamp(i), axis))
           = bounds[axis + 2]
ClampedLow(i, axis) ==
    /\ AfterClamp(i).position[axis] # BeforeClamp(i).position[axis]
    /\ RSub(AfterClamp(i).position[axis], ReachLow(AfterClamp(i), axis))
           = bounds[axis]

\* C27: whenever update clamps a body against a boundary plane, the body's
\* velocity component normal to that plane is afterwards zero or directed
\* into the world bounds, wherever the body was and however it moved before.
\* Stated for the non-fixed bodies, which update is meant to move.
C27_ClampTurnsInward ==
    last.op = "update" =>
        \A i \in 1..Len(last.pre) : \A axis \in {1, 2} :
            ~last.pre[i].fixed =>
                /\ ClampedHigh(i, axis) =>
                       RLe(AfterClamp(i).velocity[axis], Zero)
                /\ ClampedLow(i, axis) =>
                       RGe(AfterClamp(i).velocity[axis], Zero)

(***************************************************************************)
(* The momentum of the two bodies of resolve_collision (checked under      *)
(* SpecResolve).                                                           *)
(***************************************************************************)
\* mass_self * velocity_self + mass_other * velocity_other on one axis.
Momentum(bs, axis) ==
    RAdd(RMul(bs[1].mass, bs[1].velocity[axis]),
         RMul(bs[2].mass, bs[2].velocity[axis]))

\* Neither body of the last call was fixed.
BothMovable == ~last.pre[1].fixed /\ ~last.pre[2].fixed

\* The velocities are kept to the nearest 1/Precision, so a product of a
\* mass and a velocity is known to within the mass over Precision; twice
\* that for both bodies bounds what rounding can add to the total.
RoundingSlack(bs) ==
    RDiv(RMul(R(2), RAdd(bs[1].mass, bs[2].mass)), R(Precision))

\* C29: for two non-fixed bodies resolve_collision conserves total linear
\* momentum: mass_self * velocity_self + mass_other * velocity_other is the
\* same (to within the rounding of the arithmetic) before and after the
\* call on both axes.
C29_MomentumConserved ==
    (last.op = "resolve_collision" /\ BothMovable) =>
        \A axis \in {1, 2} :
            RLe(RAbs(RSub(Momentum(bodies, axis), Momentum(last.pre, axis))),
                RoundingSlack(last.pre))

\* C29's case: two non-fixed bodies of different mass approached each other
\* and the call changed both velocities.
C29_Witness ==
    /\ last.op = "resolve_collision"
    /\ BothMovable
    /\ ImpulseApplied(last.pre[1], last.pre[2])
    /\ last.pre[1].mass # last.pre[2].mass
    /\ bodies[1].velocity # last.pre[1].velocity
    /\ bodies[2].velocity # last.pre[2].velocity

(***************************************************************************)
(* SpecFall: one non-fixed body at rest in the middle of the 800 x 600     *)
(* world, under one of several gravity vectors, with update(dt) called     *)
(* again and again with the same dt.                                       *)
(***************************************************************************)
FallGravities == {<<Zero, <<1, 2>>>>, V(0, 10), V(0, -10), V(3, 0),
                  <<<<1, 2>>, <<-1, 2>>>>}
FallPositions == {V(100, 100), V(400, 300)}
FallDts == {<<1, 60>>, <<1, 2>>}

FallScenes ==
    {Scene(<<Make("a", [type |-> f.type, position |-> p,
                        options |-> WithKeys(Options(m, V(0, 0), <<4, 5>>, fr),
                                             f.options)],
                  FALSE)>>) :
        f \in SingleForms, p \in FallPositions, m \in SingleMasses,
        fr \in SingleFrictions}

InitFall ==
    \E g \in FallGravities : \E bs \in FallScenes : EngineInit(g, StaticBounds, bs)

\* update(dt), with the dt of the update before it if there was one.
NextFall ==
    \E dt \in FallDts :
        /\ IF last.op = "update" THEN last.dt = dt ELSE TRUE
        /\ Update(dt)

\* A call of update as the call counter records it.  Every step of NextFall
\* is such a step, and one is possible exactly when NextFall is.
UpdateCalled ==
    /\ used.update < MaxUpdates
    /\ used' = [used EXCEPT !.update = @ + 1, !.updated_at = CurrentTime]

\* update is called repeatedly, as the timer of start() is set up to have
\* it called: a call that can be made is made.
SpecFall == InitFall /\ [][NextFall]_vars /\ WF_used(UpdateCalled)

\* One non-fixed body, at rest, strictly inside the bounds, touching no
\* boundary plane, under a gravity vector that is not zero.
RestingInside ==
    /\ Len(bodies) = 1
    /\ ~bodies[1].fixed
    /\ bodies[1].velocity = V(0, 0)
    /\ bodies[1].forces = V(0, 0)
    /\ gravity # V(0, 0)
    /\ \A axis \in {1, 2} :
          /\ RGt(RSub(bodies[1].position[axis], ReachLow(bodies[1], axis)),
                 bounds[axis])
          /\ RLt(RAdd(bodies[1].position[axis], ReachHigh(bodies[1], axis)),
                 bounds[axis + 2])

\* The last update changed the body's position.
Moved == last.op = "update" /\ bodies[1].position # last.pre[1].position

\* C30: a single non-fixed body at rest, strictly inside the bounds and not
\* resting on the boundary toward which gravity points, under a non-zero
\* gravity vector eventually changes position when update(dt) is called
\* repeatedly with a fixed dt > 0.
C30_RestingBodyFalls == RestingInside => <>Moved

====
